---- MODULE Spec2Model ----
(***************************************************************************)
(* Model of the lyric timing core of MusicGenerationTool                   *)
(* (src/src/video_creation.py): parse_lyrics_timing (Spec), two            *)
(* invocations of it (SpecPair), its caller create_video_workflow          *)
(* (SpecWorkflow), wrap_text_intelligently (SpecWrap) and                  *)
(* fix_double_utf8_encoding (SpecFix).                                     *)
(*                                                                         *)
(* Text is a sequence of one-character strings, so that strip, split,      *)
(* lower, startswith and substring tests are computed the way the Python   *)
(* string methods compute them.  Times are exact numbers counted in        *)
(* tenths of a second (2.0 s is 20); IEEE rounding of float sums and       *)
(* non-finite timestamps are not represented.                              *)
(***************************************************************************)
EXTENDS Integers, Sequences, FiniteSets, TLC

(***************************************************************************)
(* Bounds of the explored input space.                                     *)
(***************************************************************************)
MaxWords == 4
MaxLines == 2

(***************************************************************************)
(* Python string methods.                                                  *)
(***************************************************************************)
UpperChars == <<"A","B","C","D","E","F","G","H","I","J","K","L","M",
                "N","O","P","Q","R","S","T","U","V","W","X","Y","Z","Ã">>
LowerChars == <<"a","b","c","d","e","f","g","h","i","j","k","l","m",
                "n","o","p","q","r","s","t","u","v","w","x","y","z","ã">>

Whitespace == {" ", "\n", "\t"}

Punctuation == {".", ",", "!", "?", ";", ":"}

LowerChar(c) ==
    IF \E i \in 1..Len(UpperChars) : UpperChars[i] = c
    THEN LowerChars[CHOOSE i \in 1..Len(UpperChars) : UpperChars[i] = c]
    ELSE c

\* str.lower()
Lower(s) == [i \in 1..Len(s) |-> LowerChar(s[i])]

\* str.strip(chars): drop the leading and trailing characters that are in cs
StripChars(s, cs) ==
    LET keep == {i \in 1..Len(s) : s[i] \notin cs}
    IN  IF keep = {} THEN <<>>
        ELSE LET first == CHOOSE i \in keep : \A j \in keep : i <= j
                 last  == CHOOSE i \in keep : \A j \in keep : j <= i
             IN  SubSeq(s, first, last)

\* str.strip()
Strip(s) == StripChars(s, Whitespace)

\* str.startswith(p)
StartsWith(s, p) == Len(p) <= Len(s) /\ SubSeq(s, 1, Len(p)) = p

\* the Python test `needle in hay` on strings
Contains(hay, needle) ==
    \E i \in 0..(Len(hay) - Len(needle)) :
        SubSeq(hay, i + 1, i + Len(needle)) = needle

\* str.replace('\n', ' ')
ReplaceNewlines(s) == [i \in 1..Len(s) |-> IF s[i] = "\n" THEN " " ELSE s[i]]

\* str.split('\n'): every piece between separators, empty pieces kept
RECURSIVE SplitLines(_)
SplitLines(s) ==
    LET seps == {i \in 1..Len(s) : s[i] = "\n"}
    IN  IF seps = {} THEN <<s>>
        ELSE LET k == CHOOSE i \in seps : \A j \in seps : i <= j
             IN  <<SubSeq(s, 1, k - 1)>> \o SplitLines(SubSeq(s, k + 1, Len(s)))

\* str.split(): the maximal runs of non-whitespace characters
RECURSIVE SplitWords(_)
SplitWords(s) ==
    LET t == Strip(s)
    IN  IF t = <<>> THEN <<>>
        ELSE LET ws == {i \in 1..Len(t) : t[i] \in Whitespace}
             IN  IF ws = {} THEN <<t>>
                 ELSE LET k == CHOOSE i \in ws : \A j \in ws : i <= j
                      IN  <<SubSeq(t, 1, k - 1)>>
                              \o SplitWords(SubSeq(t, k + 1, Len(t)))

\* '\n'.join(lines)
RECURSIVE JoinLines(_)
JoinLines(ls) ==
    IF ls = <<>> THEN <<>>
    ELSE IF Len(ls) = 1 THEN ls[1]
    ELSE ls[1] \o <<"\n">> \o JoinLines(Tail(ls))

(***************************************************************************)
(* Times: float seconds, counted here in tenths of a second.               *)
(***************************************************************************)
Seconds(n) == n * 10

\* the literal 2.0 of the minimum-duration test
MinDuration == Seconds(2)

\* the literal 3.0 of the estimated timing
EstimatedDuration == Seconds(3)

(***************************************************************************)
(* The structural markers (the same list on both paths).                   *)
(***************************************************************************)
structural_markers ==
    << <<"i","n","t","r","o">>,
       <<"c","o","u","p","l","e","t">>,
       <<"v","e","r","s","e">>,
       <<"c","h","o","r","u","s">>,
       <<"r","e","f","r","a","i","n">>,
       <<"b","r","i","d","g","e">>,
       <<"o","u","t","r","o">>,
       <<"p","r","e","-","c","h","o","r","u","s">>,
       <<"p","o","s","t","-","c","h","o","r","u","s">>,
       <<"i","n","t","e","r","l","u","d","e">> >>

\* a plausible slip: only a text equal to a marker counts as structural
is_structural_ExactOnly(s) ==
    \E k \in 1..Len(structural_markers) : s = structural_markers[k]

\* any(s.startswith(marker) or s == marker for marker in structural_markers)
is_structural(s) ==
    \E k \in 1..Len(structural_markers) :
        StartsWith(s, structural_markers[k]) \/ s = structural_markers[k]

(***************************************************************************)
(* Input values.  A lyric text is [kind, val]: kind "none" is None, "str"  *)
(* a string with the characters val, "int" a value that is not a string.   *)
(* A response is None (kind "none") or a dict; its data entry is absent,   *)
(* null, a dict, or a string where a dict is expected ("str"); the         *)
(* alignedWords entry of data is absent or a list of word dicts.  A word   *)
(* dict whose numeric field is FALSE carries timestamps float() rejects.   *)
(***************************************************************************)
NoneLyrics == [kind |-> "none", val |-> <<>>]

NotAString == [kind |-> "int", val |-> <<>>]

Str(chars) == [kind |-> "str", val |-> chars]

Word(w, s, e, ok, num) ==
    [word |-> w, startS |-> s, endS |-> e, success |-> ok, numeric |-> num]

\* the word occurrences the API may report, in the order it reports them
WordStream ==
    << Word(<<"V","e","r","s","e","\n">>,    30, 31, TRUE,  TRUE),
       Word(<<"H","e","l","l","o">>,          0,  5, TRUE,  TRUE),
       Word(<<"l","a">>,                     40, 45, FALSE, TRUE),
       Word(<<"x","y","z","!">>,             12,  3, TRUE,  TRUE),
       Word(<<"w","o","r","l","d">>,          5, 10, TRUE,  TRUE),
       Word(<<" ","\n">>,                    50, 55, TRUE,  TRUE),
       Word(<<"G","o","o","d","b","y","e">>, 10, 16, TRUE,  TRUE),
       Word(<<"o","h">>,                      0,  0, TRUE,  FALSE),
       Word(<<"n","o","w">>,                 16, 20, TRUE,  TRUE) >>

\* the lyric lines of the examples
HelloWorld == <<"H","e","l","l","o"," ","w","o","r","l","d">>

GoodbyeNow == <<"G","o","o","d","b","y","e"," ","n","o","w">>

LinePool ==
    { HelloWorld,
      <<" ">> \o GoodbyeNow \o <<" ">>,
      <<"V","e","r","s","e"," ","1">>,
      <<"l","a">>,
      <<"H","e","l","l","o">> }

\* the elements of s at the positions in ps, in order
RECURSIVE Pick(_, _)
Pick(s, ps) ==
    IF ps = {} THEN <<>>
    ELSE LET k == CHOOSE i \in ps : \A j \in ps : i <= j
         IN  <<s[k]>> \o Pick(s, ps \ {k})

\* the word lists of a response: up to MaxWords occurrences of the stream
WordLists ==
    { Pick(WordStream, ps) :
        ps \in {q \in SUBSET (1..Len(WordStream)) : Cardinality(q) <= MaxWords} }

\* the lyric texts: up to MaxLines lines joined by line breaks
LyricTexts ==
    UNION { { JoinLines(ls) : ls \in [1..n -> LinePool] } : n \in 0..MaxLines }

Response(k, m, d, a, ws, ly) ==
    [kind |-> k, msg |-> m, data |-> d, aligned |-> a, alignedWords |-> ws,
     lyrics |-> ly]

\* None, {}, {msg}, {data: null, msg}, {data: "..."}, {data: {}}
ResponsesWithoutWords ==
    { Response("none", FALSE, "absent", "absent", <<>>, NoneLyrics),
      Response("dict", FALSE, "absent", "absent", <<>>, NoneLyrics),
      Response("dict", TRUE,  "absent", "absent", <<>>, NoneLyrics),
      Response("dict", TRUE,  "null",   "absent", <<>>, NoneLyrics),
      Response("dict", FALSE, "str",    "absent", <<>>, NoneLyrics),
      Response("dict", FALSE, "dict",   "absent", <<>>, NoneLyrics) }

\* the lyric arguments a caller may pass
LyricArgs == {NoneLyrics, NotAString} \cup {Str(t) : t \in LyricTexts}

\* the pairs <<original_lyrics argument, data.lyrics>> of a call
LyricPairs ==
    {<<a, NoneLyrics>> : a \in LyricArgs}
        \cup {<<NoneLyrics, Str(t)>> : t \in LyricTexts}
        \cup {<<a, Str(<<"V","e","r","s","e","\n","\n","O","h"," ","y","e","a","h">>)>> :
                a \in {Str(<<>>), Str(HelloWorld)}}

\* bool(x) of a response: None and the empty dict are false
TruthyResponse(r) ==
    r.kind = "dict" /\ (r.msg \/ r.data # "absent")

\* bool(x) of a lyric text: None and the empty string are false
TruthyLyrics(l) ==
    l.kind = "int" \/ (l.kind = "str" /\ l.val # <<>>)

(***************************************************************************)
(* State of one call of parse_lyrics_timing.                               *)
(***************************************************************************)
VARIABLES
    lyrics_data,        \* argument: the API response
    lyrics_arg,         \* argument original_lyrics as passed by the caller
    original_lyrics,    \* the local original_lyrics (rebound at line 293)
    clean_words,        \* filtered words: [word, start, end]
    lyrics_lines,       \* surviving lyric lines
    segments,           \* segments built so far: <<start, end, text>>
    word_index,         \* cursor into clean_words (0-based)
    line_idx,           \* index of the next line of the matching loop
    assigned,           \* line_words of every processed line (0-based indices)
    cursors,            \* word_index after every processed line
    scans,              \* outcome of the forward scan of every processed line
    pc,                 \* position in the function
    result              \* returned list, once pc = "done"

(***************************************************************************)
(* State of the other functions of the module and of their callers; a      *)
(* call of parse_lyrics_timing leaves it alone.                            *)
(***************************************************************************)
VARIABLES
    wrap,               \* a call of wrap_text_intelligently
    fix,                \* two successive calls of fix_double_utf8_encoding
    workflow,           \* create_video_workflow around parse_lyrics_timing
    frames,             \* the locals of two concurrent parse_lyrics_timing calls
    dims,               \* a call of calculate_720p_dimensions
    cache,              \* savedData.json and get_timestamped_lyrics_with_cache calls
    poll                \* create_music_with_gradio around wait_until_completion

other_vars == <<wrap, fix, workflow, frames, dims, cache, poll>>

\* the value of a variable no function of the specification uses
Unused == [pc |-> "unused"]

vars == <<lyrics_data, lyrics_arg, original_lyrics, clean_words, lyrics_lines,
          segments, word_index, line_idx, assigned, cursors, scans, pc, result,
          wrap, fix, workflow, frames, dims, cache, poll>>

\* the locals of parse_lyrics_timing before its first statement
InitLocals ==
    /\ original_lyrics = lyrics_arg
    /\ clean_words = <<>>
    /\ lyrics_lines = <<>>
    /\ segments = <<>>
    /\ word_index = 0
    /\ line_idx = 0
    /\ assigned = <<>>
    /\ cursors = <<>>
    /\ scans = <<>>
    /\ pc = "start"
    /\ result = <<>>

Init ==
    /\ \/ /\ lyrics_data \in ResponsesWithoutWords
          /\ lyrics_arg \in LyricArgs
       \/ \E ws \in WordLists, p \in LyricPairs :
              /\ lyrics_data = Response("dict", FALSE, "dict", "list", ws, p[2])
              /\ lyrics_arg = p[1]
    /\ InitLocals
    /\ wrap = Unused
    /\ fix = Unused
    /\ workflow = Unused
    /\ frames = Unused
    /\ dims = Unused
    /\ cache = Unused
    /\ poll = Unused

(***************************************************************************)
(* Helpers of the function body.                                           *)
(***************************************************************************)
\* a plausible slip: the length test keeps lines of 2 or 3 characters
RECURSIVE FilterLines_KeepShort(_)
FilterLines_KeepShort(ls) ==
    IF ls = <<>> THEN <<>>
    ELSE LET line == Strip(ls[1])
             keep == line # <<>> /\ ~is_structural(Lower(line)) /\ Len(line) > 1
         IN  (IF keep THEN <<line>> ELSE <<>>) \o FilterLines_KeepShort(Tail(ls))

\* the line filter of both paths: strip, drop blank lines, structural
\* markers and lines of at most 3 characters
RECURSIVE FilterLines(_)
FilterLines(ls) ==
    IF ls = <<>> THEN <<>>
    ELSE LET line == Strip(ls[1])
             line_lower == Lower(line)
             keep == /\ line # <<>>
                     /\ ~is_structural(line_lower)
                     /\ Len(line) > 3
         IN  (IF keep THEN <<line>> ELSE <<>>) \o FilterLines(Tail(ls))

\* a plausible slip: the slot of a line ends after 2 seconds, not 3
RECURSIVE EstimatedSegments_ShortSlot(_, _)
EstimatedSegments_ShortSlot(ls, i) ==
    IF i >= Len(ls) THEN <<>>
    ELSE << <<Seconds(i * 3), Seconds(i * 3 + 2), ls[i + 1]>> >>
             \o EstimatedSegments_ShortSlot(ls, i + 1)

\* the segments of the payload-less fallback: 3 seconds per line
RECURSIVE EstimatedSegments(_, _)
EstimatedSegments(ls, i) ==
    IF i >= Len(ls) THEN <<>>
    ELSE << <<Seconds(i * 3), Seconds((i + 1) * 3), ls[i + 1]>> >>
             \o EstimatedSegments(ls, i + 1)

\* a plausible slip: the success flag is not looked at
CleanWord_IgnoresSuccess(word_data) ==
    LET stripped == Strip(word_data.word)
    IN  IF stripped = <<>> THEN <<>>
        ELSE LET word_text == Strip(ReplaceNewlines(stripped))
                 word_lower == Strip(Lower(word_text))
             IN  IF ~is_structural(word_lower) /\ Len(word_text) > 0
                 THEN << [word  |-> word_text,
                          start |-> word_data.startS,
                          end   |-> word_data.endS] >>
                 ELSE <<>>

\* lines 256-283, one iteration of the clean_words loop: the entry appended
\* for word_data, <<>> when the word is skipped
CleanWord(word_data) ==
    IF ~word_data.success THEN <<>>
    ELSE LET stripped == Strip(word_data.word)
         IN  IF stripped = <<>> THEN <<>>
             ELSE LET word_text == Strip(ReplaceNewlines(stripped))
                      word_lower == Strip(Lower(word_text))
                  IN  IF ~is_structural(word_lower) /\ Len(word_text) > 0
                      THEN << [word  |-> word_text,
                               start |-> word_data.startS,
                               end   |-> word_data.endS] >>
                      ELSE <<>>

\* float(start_s) or float(end_s) raises for this word
FloatRaises(word_data) ==
    CleanWord([word_data EXCEPT !.numeric = TRUE]) # <<>> /\ ~word_data.numeric

RECURSIVE CleanWords(_)
CleanWords(ws) ==
    IF ws = <<>> THEN <<>> ELSE CleanWord(ws[1]) \o CleanWords(Tail(ws))

(***************************************************************************)
(* The try block, phase by phase.                                          *)
(***************************************************************************)
\* return value: leave the function with list r
Return(r) ==
    /\ result' = r
    /\ pc' = "done"

\* an exception raised inside the try block reaches the except clause
Raise ==
    /\ pc' = "except"
    /\ UNCHANGED result

\* a plausible slip: the except clause lets the exception through
HandleException_Reraise ==
    /\ pc = "except"
    /\ pc' = "raised"
    /\ UNCHANGED <<lyrics_data, lyrics_arg, original_lyrics, clean_words,
                   lyrics_lines, segments, word_index, line_idx, assigned,
                   cursors, scans, result>>
    /\ UNCHANGED other_vars

\* a plausible slip: missing words treated like a missing payload
ReturnNoAlignedWords_Fallback ==
    /\ pc' = "fallback"
    /\ UNCHANGED result

\* lines 243-245: data without aligned words returns the empty list
ReturnNoAlignedWords == Return(<<>>)

\* line 198: is there a payload?
CheckPayload ==
    /\ pc = "start"
    /\ IF ~TruthyResponse(lyrics_data) \/ lyrics_data.data \in {"absent", "null"}
       THEN pc' = "fallback"
       ELSE pc' = "words"
    /\ UNCHANGED <<lyrics_data, lyrics_arg, original_lyrics, clean_words,
                   lyrics_lines, segments, word_index, line_idx, assigned,
                   cursors, scans, result>>
    /\ UNCHANGED other_vars

\* lines 199-240: no payload; estimated segments from the original lyrics
Fallback ==
    /\ pc = "fallback"
    /\ IF ~TruthyLyrics(original_lyrics)
       THEN Return(<<>>) /\ UNCHANGED <<lyrics_lines, segments>>
       ELSE IF original_lyrics.kind # "str"
       THEN Raise /\ UNCHANGED <<lyrics_lines, segments>>
       ELSE LET kept == FilterLines(SplitLines(original_lyrics.val))
            IN  /\ lyrics_lines' = kept
                /\ IF kept # <<>>
                   THEN /\ segments' = EstimatedSegments(kept, 0)
                        /\ Return(segments')
                   ELSE /\ UNCHANGED segments
                        /\ Return(<<>>)
    /\ UNCHANGED <<lyrics_data, lyrics_arg, original_lyrics, clean_words,
                   word_index, line_idx, assigned, cursors, scans>>
    /\ UNCHANGED other_vars

\* lines 242-289: read alignedWords and filter them into clean_words
FilterWords ==
    /\ pc = "words"
    /\ IF lyrics_data.data # "dict"
       THEN Raise /\ UNCHANGED clean_words
       ELSE IF lyrics_data.aligned = "absent" \/ lyrics_data.alignedWords = <<>>
       THEN ReturnNoAlignedWords /\ UNCHANGED clean_words
       ELSE IF \E i \in 1..Len(lyrics_data.alignedWords) :
                   FloatRaises(lyrics_data.alignedWords[i])
       THEN Raise /\ UNCHANGED clean_words
       ELSE LET cw == CleanWords(lyrics_data.alignedWords)
            IN  /\ clean_words' = cw
                /\ IF cw = <<>>
                   THEN Return(<<>>)
                   ELSE pc' = "lines" /\ UNCHANGED result
    /\ UNCHANGED <<lyrics_data, lyrics_arg, original_lyrics, lyrics_lines,
                   segments, word_index, line_idx, assigned, cursors, scans>>
    /\ UNCHANGED other_vars

\* a plausible slip: the segment list is not emptied before the loop (a list
\* that outlives the call, such as a mutable default or a module-level list)
InitialSegments_Kept(previous) == previous

\* line 322: segments = []
InitialSegments(previous) == <<>>

\* lines 322-325: the loop starts with no segments, the cursor at 0 and the
\* first line
EnterLoop ==
    /\ segments' = InitialSegments(segments)
    /\ word_index' = 0
    /\ line_idx' = 0
    /\ assigned' = <<>>
    /\ cursors' = <<>>
    /\ scans' = <<>>

\* lines 291-323: choose the lyric text, split and filter it into lyrics_lines
ParseLines ==
    /\ pc = "lines"
    /\ LET text == IF TruthyLyrics(original_lyrics)
                   THEN original_lyrics
                   ELSE IF lyrics_data.lyrics.kind = "none"
                        THEN Str(<<>>)
                        ELSE lyrics_data.lyrics
           not_entered == UNCHANGED <<segments, word_index, line_idx, assigned,
                                      cursors, scans>>
       IN  /\ original_lyrics' = text
           /\ IF ~TruthyLyrics(text)
              THEN Return(<<>>) /\ UNCHANGED lyrics_lines /\ not_entered
              ELSE IF text.kind # "str"
              THEN Raise /\ UNCHANGED lyrics_lines /\ not_entered
              ELSE LET kept == FilterLines(SplitLines(text.val))
                   IN  /\ lyrics_lines' = kept
                       /\ IF kept = <<>>
                          THEN Return(<<>>) /\ not_entered
                          ELSE pc' = "match" /\ UNCHANGED result /\ EnterLoop
    /\ UNCHANGED <<lyrics_data, lyrics_arg, clean_words>>
    /\ UNCHANGED other_vars

(***************************************************************************)
(* The matching loop, lines 325-397: one action per lyric line.            *)
(***************************************************************************)
Max(a, b) == IF a >= b THEN a ELSE b

Min(a, b) == IF a <= b THEN a ELSE b

\* lines 341-342: does the cleaned word text match this word of the line?
WordMatches(word_text, line_word) ==
    \/ Contains(line_word, word_text)
    \/ Contains(word_text, line_word)
    \/ word_text = line_word

\* a plausible slip: the word is compared with the next unmatched word only
Accepts_NextOnly(word_text, line_words_text, matched_words) ==
    WordMatches(word_text, line_words_text[matched_words + 1])

\* lines 339-346: the word is accepted when it matches any of the words of
\* the line from position matched_words on (line_words_text[matched_words:])
Accepts(word_text, line_words_text, matched_words) ==
    \E k \in (matched_words + 1)..Len(line_words_text) :
        WordMatches(word_text, line_words_text[k])

\* a plausible slip: the scan has no runaway guard
Runaway_Never(examined, n_target) == FALSE

\* line 350: temp_word_index - word_index > len(line_words_text) * 3
Runaway(examined, n_target) == examined > n_target * 3

\* lines 334-351: the forward scan from temp_word_index; line_words holds
\* the (0-based) indices of the words matched so far
RECURSIVE Scan(_, _, _, _, _, _)
Scan(words, line_words_text, start_index, temp_word_index, matched_words, line_words) ==
    IF temp_word_index < Len(words) /\ matched_words < Len(line_words_text)
    THEN LET word_obj == words[temp_word_index + 1]
             word_text == StripChars(Lower(word_obj.word), Punctuation)
             hit == Accepts(word_text, line_words_text, matched_words)
             lw == IF hit THEN Append(line_words, temp_word_index)
                   ELSE line_words
             mw == IF hit THEN matched_words + 1 ELSE matched_words
             next == temp_word_index + 1
         IN  IF Runaway(next - start_index, Len(line_words_text))
             THEN [temp_word_index |-> next, matched_words |-> mw,
                   line_words |-> lw]
             ELSE Scan(words, line_words_text, start_index, next, mw, lw)
    ELSE [temp_word_index |-> temp_word_index, matched_words |-> matched_words,
          line_words |-> line_words]

\* a plausible slip: the threshold is truncated to an integer,
\* len(line_words) < int(len(line_words_text) * 0.3)
LowConfidence_Truncated(n_matched, n_target) == n_matched < (n_target * 3) \div 10

\* line 354: len(line_words) < len(line_words_text) * 0.3
LowConfidence(n_matched, n_target) == n_matched * 10 < n_target * 3

\* lines 356-361: the number of words the sequential distribution gives to
\* the line
words_for_this_line(idx, n_words, n_lines) ==
    LET words_per_line == Max(1, n_words \div n_lines)
        remaining_words == n_words % n_lines
    IN  IF idx < remaining_words THEN words_per_line + 1 ELSE words_per_line

\* a plausible slip: the slice starts one word late,
\* clean_words[from + 1 : from + 1 + count]
Slice_OffByOne(n_words, from, count) ==
    LET to == Min(from + 1 + count, n_words)
    IN  [k \in 1..Max(0, to - from - 1) |-> from + k]

\* lines 363-365: the slice clean_words[from : from + count], as indices
Slice(n_words, from, count) ==
    LET to == Min(from + count, n_words)
    IN  [k \in 1..Max(0, to - from) |-> from + k - 1]

\* a plausible slip: the sequential distribution forgets to move the cursor
AdvanceSequential_Stuck(cursor, count) == cursor

\* line 366: the cursor after a sequential distribution
AdvanceSequential(cursor, count) == cursor + count

\* a plausible slip: an accepted match forgets to move the cursor
AdvanceMatched_Stuck(cursor, temp_word_index) == cursor

\* line 369: the cursor after an accepted match
AdvanceMatched(cursor, temp_word_index) == temp_word_index

\* a plausible slip: no minimum duration is enforced
MinDurationEnd_NoPad(start_time, end_time) == end_time

\* a plausible slip: a short segment is extended by 2 seconds (end += 2.0)
MinDurationEnd_Extend(start_time, end_time) ==
    IF end_time - start_time < MinDuration
    THEN end_time + MinDuration
    ELSE end_time

\* lines 376-377: the end time after the minimum-duration rule
MinDurationEnd(start_time, end_time) ==
    IF end_time - start_time < MinDuration
    THEN start_time + MinDuration
    ELSE end_time

\* a plausible slip: the segment shows the matched words, not the line
TimedSegment_WordText(words, line_words, line_text) ==
    LET start_time == words[line_words[1] + 1].start
        end_time == words[line_words[Len(line_words)] + 1].end
    IN  <<start_time, MinDurationEnd(start_time, end_time),
          words[line_words[1] + 1].word>>

\* lines 371-379: the segment of a line that has words
TimedSegment(words, line_words, line_text) ==
    LET start_time == words[line_words[1] + 1].start
        end_time == words[line_words[Len(line_words)] + 1].end
    IN  <<start_time, MinDurationEnd(start_time, end_time), line_text>>

\* a plausible slip: the estimated start is always line_idx * 3
EstimatedSegment_FromIndex(segs, idx, line_text) ==
    <<Seconds(idx * 3), Seconds(idx * 3) + EstimatedDuration, line_text>>

\* a plausible slip: the estimated start is the previous segment's start
\* (segments[-1][0])
EstimatedSegment_FromPreviousStart(segs, idx, line_text) ==
    LET start_time == IF segs # <<>> THEN segs[Len(segs)][1]
                      ELSE Seconds(idx * 3)
    IN  <<start_time, start_time + EstimatedDuration, line_text>>

\* lines 388-395: the segment of a line without words
EstimatedSegment(segs, idx, line_text) ==
    LET start_time == IF segs # <<>> THEN segs[Len(segs)][2]
                      ELSE Seconds(idx * 3)
    IN  <<start_time, start_time + EstimatedDuration, line_text>>

AlignLine ==
    /\ pc = "match"
    /\ line_idx < Len(lyrics_lines)
    /\ LET line_text == lyrics_lines[line_idx + 1]
           line_words_text == SplitWords(Lower(line_text))
           scan == Scan(clean_words, line_words_text, word_index, word_index,
                        0, <<>>)
           low == LowConfidence(Len(scan.line_words), Len(line_words_text))
           count == words_for_this_line(line_idx, Len(clean_words),
                                        Len(lyrics_lines))
           line_words == IF low THEN Slice(Len(clean_words), word_index, count)
                         ELSE scan.line_words
           cursor == IF low THEN AdvanceSequential(word_index, count)
                     ELSE AdvanceMatched(word_index, scan.temp_word_index)
           segment == IF line_words # <<>>
                      THEN TimedSegment(clean_words, line_words, line_text)
                      ELSE EstimatedSegment(segments, line_idx, line_text)
       IN  /\ word_index' = cursor
           /\ segments' = Append(segments, segment)
           /\ assigned' = Append(assigned, line_words)
           /\ cursors' = Append(cursors, cursor)
           /\ scans' = Append(scans, [temp_word_index |-> scan.temp_word_index,
                                      matched_words |-> scan.matched_words,
                                      line_words |-> scan.line_words,
                                      low |-> low,
                                      count |-> count])
    /\ line_idx' = line_idx + 1
    /\ UNCHANGED <<lyrics_data, lyrics_arg, original_lyrics, clean_words,
                   lyrics_lines, pc, result>>
    /\ UNCHANGED other_vars

\* line 401: the loop is over, return segments
ReturnSegments ==
    /\ pc = "match"
    /\ line_idx = Len(lyrics_lines)
    /\ Return(segments)
    /\ UNCHANGED <<lyrics_data, lyrics_arg, original_lyrics, clean_words,
                   lyrics_lines, segments, word_index, line_idx, assigned,
                   cursors, scans>>
    /\ UNCHANGED other_vars

\* lines 403-407: the except clause returns the empty list
HandleException ==
    /\ pc = "except"
    /\ Return(<<>>)
    /\ UNCHANGED <<lyrics_data, lyrics_arg, original_lyrics, clean_words,
                   lyrics_lines, segments, word_index, line_idx, assigned,
                   cursors, scans>>
    /\ UNCHANGED other_vars

Next ==
    \/ CheckPayload
    \/ Fallback
    \/ FilterWords
    \/ ParseLines
    \/ AlignLine
    \/ ReturnSegments
    \/ HandleException

Spec == Init /\ [][Next]_vars

(***************************************************************************)
(* Vocabulary of the properties.                                           *)
(***************************************************************************)
PayloadMissing ==
    lyrics_data.kind = "none" \/ lyrics_data.data \in {"absent", "null"}

\* the text begins with (or is) one of the ten markers
BeginsWithMarker(text) ==
    \E k \in 1..Len(structural_markers) :
        /\ Len(text) >= Len(structural_markers[k])
        /\ \A c \in 1..Len(structural_markers[k]) :
               text[c] = structural_markers[k][c]

\* a trimmed line survives: not blank, not structural, longer than 3
Survives(line) ==
    /\ line # <<>>
    /\ ~BeginsWithMarker(Lower(line))
    /\ Len(line) > 3

\* the surviving lines of a lyric text, in source order
SurvivingLines(text) ==
    LET pieces == SplitLines(text)
        trimmed == [i \in 1..Len(pieces) |-> Strip(pieces[i])]
    IN  SelectSeq(trimmed, Survives)

\* the lyric text the call works on
EffectiveLyrics ==
    IF PayloadMissing \/ TruthyLyrics(lyrics_arg) THEN lyrics_arg
    ELSE lyrics_data.lyrics

\* the matching loop has been entered
AlignerRan == clean_words # <<>> /\ lyrics_lines # <<>> /\ pc \in {"match", "done"}

\* the first and the last word assigned to processed line i
FirstWord(i) == clean_words[assigned[i][1] + 1]

LastWord(i) == clean_words[assigned[i][Len(assigned[i])] + 1]

C2_OneSegmentPerLine ==
    AlignerRan =>
        /\ Len(segments) = line_idx
        /\ \A i \in 1..Len(segments) : segments[i][3] = lyrics_lines[i]
        /\ pc = "done" =>
               LET lines == SurvivingLines(EffectiveLyrics.val)
               IN  /\ Len(result) = Len(lines)
                   /\ \A i \in 1..Len(lines) : result[i][3] = lines[i]

\* two lines returned, the first timed by words of another text
C2_Witness ==
    /\ pc = "done"
    /\ AlignerRan
    /\ Len(result) = 2
    /\ result[1][3] = GoodbyeNow
    /\ FirstWord(1).word = <<"H","e","l","l","o">>
    /\ result[2][3] = HelloWorld
    /\ assigned[2] # <<>>

(***************************************************************************)
(* C3: no word is used twice: the cursor never decreases, the words of     *)
(* each line lie between the cursor left by the previous line and the      *)
(* cursor the line leaves, and the words of an earlier line all precede    *)
(* the words of a later line.                                              *)
(***************************************************************************)
C3_NoTokenReuse ==
    /\ Len(cursors) = Len(assigned)
    /\ \A i \in 1..Len(assigned) :
           LET before == IF i = 1 THEN 0 ELSE cursors[i - 1]
           IN  /\ before <= cursors[i]
               /\ \A k \in 1..Len(assigned[i]) :
                      before <= assigned[i][k] /\ assigned[i][k] < cursors[i]
    /\ \A i, j \in 1..Len(assigned) :
           i < j => \A a \in 1..Len(assigned[i]), b \in 1..Len(assigned[j]) :
                        assigned[i][a] < assigned[j][b]
    /\ Len(cursors) > 0 => word_index = cursors[Len(cursors)]

\* an accepted match followed by a sequential distribution that takes words
C3_Witness ==
    /\ Len(assigned) = 2
    /\ assigned[1] = <<0, 2>>
    /\ cursors[1] = 3
    /\ assigned[2] = <<3>>
    /\ cursors[2] > Len(clean_words)

(***************************************************************************)
(* C4: on every path, no segment's text, lower-cased and trimmed, is or    *)
(* begins with one of the ten structural markers.                          *)
(***************************************************************************)
C4_NoStructuralText ==
    /\ \A i \in 1..Len(segments) : ~BeginsWithMarker(Strip(Lower(segments[i][3])))
    /\ \A i \in 1..Len(result) : ~BeginsWithMarker(Strip(Lower(result[i][3])))

\* segments returned from a data.lyrics text that has a marker line, for
\* words that include a marker
C4_Witness ==
    /\ pc = "done"
    /\ result # <<>>
    /\ ~TruthyLyrics(lyrics_arg)
    /\ lyrics_data.lyrics.kind = "str"
    /\ \E i \in 1..Len(SplitLines(lyrics_data.lyrics.val)) :
           BeginsWithMarker(Lower(Strip(SplitLines(lyrics_data.lyrics.val)[i])))
    /\ \E i \in 1..Len(lyrics_data.alignedWords) :
           BeginsWithMarker(Lower(Strip(lyrics_data.alignedWords[i].word)))

(***************************************************************************)
(* C5: when the start times of the filtered words are non-decreasing in    *)
(* stream order, the start times of the segments are non-decreasing in     *)
(* output order, lines with estimated timing included.                     *)
(***************************************************************************)
C5_MonotoneStarts ==
    (/\ AlignerRan
     /\ \A i \in 1..(Len(clean_words) - 1) :
            clean_words[i].start <= clean_words[i + 1].start)
        => /\ \A i \in 1..(Len(segments) - 1) : segments[i][1] <= segments[i + 1][1]
           /\ \A i \in 1..(Len(result) - 1) : result[i][1] <= result[i + 1][1]

\* sorted words; the first line skips a word and the second has no word left
C5_Witness ==
    /\ pc = "done"
    /\ AlignerRan
    /\ Len(clean_words) = 3
    /\ \A i \in 1..2 : clean_words[i].start < clean_words[i + 1].start
    /\ Len(result) = 2
    /\ assigned[1] = <<1, 2>>
    /\ assigned[2] = <<>>
    /\ result[2][1] = result[1][2]

(***************************************************************************)
(* C6: the call never lets an exception out.  The function is always at    *)
(* one of its positions, and at each of them but the return it has a step  *)
(* to take; an exception raised in the try block is answered by the except *)
(* clause, which returns the empty list; the returned value is a list of   *)
(* (start, end, text) segments.                                            *)
(***************************************************************************)
C6_NeverRaises ==
    /\ [](/\ pc \in {"start", "fallback", "words", "lines", "match", "except",
                     "done"}
          /\ pc = "match" => line_idx <= Len(lyrics_lines)
          /\ \A i \in 1..Len(result) :
                 /\ Len(result[i]) = 3
                 /\ result[i][1] \in Int
                 /\ result[i][2] \in Int)
    /\ [][pc = "except" => (pc' = "done" /\ result' = <<>>)]_vars

\* the empty list returned after float() rejected a timestamp
C6_Witness ==
    /\ pc = "done"
    /\ result = <<>>
    /\ lyrics_data.aligned = "list"
    /\ \E i \in 1..Len(lyrics_data.alignedWords) :
           ~lyrics_data.alignedWords[i].numeric
    /\ lyrics_arg = Str(HelloWorld)

(***************************************************************************)
(* C7: with the response null or its data null or absent, and a lyric text *)
(* with surviving lines, the result is one segment per surviving line,     *)
(* segment i (from 0) being (3*i, 3*(i+1), line i): a function of the      *)
(* lyric text alone.                                                       *)
(***************************************************************************)
C7_TopLevelFallback ==
    (/\ pc = "done"
     /\ PayloadMissing
     /\ lyrics_arg.kind = "str"
     /\ SurvivingLines(lyrics_arg.val) # <<>>)
        => LET lines == SurvivingLines(lyrics_arg.val)
           IN  result = [i \in 1..Len(lines) |->
                            <<Seconds(3 * (i - 1)), Seconds(3 * i), lines[i]>>]

\* {data: null, msg} with two surviving lines
C7_Witness ==
    /\ pc = "done"
    /\ lyrics_data.data = "null"
    /\ lyrics_data.msg
    /\ result = << <<0, 30, HelloWorld>>, <<30, 60, GoodbyeNow>> >>

(***************************************************************************)
(* C8: with data present but alignedWords empty or absent, the result is   *)
(* the empty list even when lyrics with surviving lines are supplied.      *)
(***************************************************************************)
C8_NoAlignedWordsEmpty ==
    (/\ pc = "done"
     /\ lyrics_data.kind = "dict"
     /\ lyrics_data.data \in {"dict", "str"}
     /\ lyrics_data.aligned = "absent" \/ lyrics_data.alignedWords = <<>>)
        => result = <<>>

\* {data: {alignedWords: []}} with two surviving lyric lines
C8_Witness ==
    /\ pc = "done"
    /\ lyrics_data.data = "dict"
    /\ lyrics_data.aligned = "list"
    /\ lyrics_data.alignedWords = <<>>
    /\ lyrics_arg.kind = "str"
    /\ Len(SurvivingLines(lyrics_arg.val)) = 2
    /\ result = <<>>

(***************************************************************************)
(* C9: the result is the empty list when the payload is missing and no     *)
(* lyrics are supplied, and, on either path, when no line of the lyric     *)
(* text survives the filter.                                               *)
(***************************************************************************)
C9_EmptyResults ==
    (/\ pc = "done"
     /\ \/ PayloadMissing /\ ~TruthyLyrics(lyrics_arg)
        \/ EffectiveLyrics.kind = "none"
        \/ EffectiveLyrics.kind = "str" /\ SurvivingLines(EffectiveLyrics.val) = <<>>)
        => result = <<>>

\* usable words, but a text of a marker line and a short line only
C9_Witness ==
    /\ pc = "done"
    /\ clean_words # <<>>
    /\ lyrics_arg = Str(<<"V","e","r","s","e"," ","1","\n","l","a">>)
    /\ result = <<>>

(***************************************************************************)
(* C10: Scenario A.  For the lines "Hello world", "Goodbye now" and the    *)
(* words Hello 0-0.5, world 0.5-1.0, Goodbye 1.0-1.6, now 1.6-2.0 the      *)
(* result is (0, 2.0, "Hello world"), (1.0, 3.0, "Goodbye now"): both      *)
(* segments are padded to the minimum duration.                            *)
(***************************************************************************)
ScenarioA ==
    /\ pc = "done"
    /\ lyrics_lines = <<HelloWorld, GoodbyeNow>>
    /\ clean_words =
           << [word |-> <<"H","e","l","l","o">>, start |-> 0, end |-> 5],
              [word |-> <<"w","o","r","l","d">>, start |-> 5, end |-> 10],
              [word |-> <<"G","o","o","d","b","y","e">>, start |-> 10, end |-> 16],
              [word |-> <<"n","o","w">>, start |-> 16, end |-> 20] >>

C10_ScenarioA_Padded ==
    ScenarioA =>
        result = << <<0, 20, HelloWorld>>, <<10, 30, GoodbyeNow>> >>

\* Scenario A has been run on the four words alone
C10_Witness ==
    /\ ScenarioA
    /\ Len(lyrics_data.alignedWords) = 4
    /\ assigned = << <<0, 1>>, <<2, 3>> >>

\* C10 as stated: the first segment keeps its raw end 1.0
C10_ScenarioA_AsStated ==
    ScenarioA =>
        result = << <<0, 10, HelloWorld>>, <<10, 30, GoodbyeNow>> >>

(***************************************************************************)
(* Vocabulary of the matching loop: what the scan of line i (1-based) saw. *)
(***************************************************************************)
\* the cursor the scan of line i started from
CursorBefore(i) == IF i = 1 THEN 0 ELSE cursors[i - 1]

\* the target words of line i
TargetWords(i) == SplitWords(Lower(lyrics_lines[i]))

\* the compared text of token j (0-based)
TokenText(j) == StripChars(Lower(clean_words[j + 1].word), Punctuation)

\* the tokens the scan of line i accepted
Accepted(i) == {scans[i].line_words[k] : k \in 1..Len(scans[i].line_words)}

\* how many tokens the scan of line i had accepted when it examined token j
AcceptedBefore(i, j) == Cardinality({x \in Accepted(i) : x < j})

\* the tokens the scan of line i examined
Examined(i) == CursorBefore(i)..(scans[i].temp_word_index - 1)

\* the tokens not yet consumed and the lines not yet processed at line i
TokensLeft(i) == Len(clean_words) - CursorBefore(i)

LinesLeft(i) == Len(lyrics_lines) - (i - 1)

(***************************************************************************)
(* C18. Low-confidence distribution, as stated: a line that fails the      *)
(* acceptance test receives the integer quotient of the tokens not yet     *)
(* consumed by the lines not yet processed, plus one when the division     *)
(* leaves a remainder (the line is the earliest of the remaining lines).   *)
(* The code computes the share from the totals, max(1, T div L) plus one   *)
(* for line_idx < T mod L, so the statement is violated.                   *)
(***************************************************************************)
C18_RemainingPoolShare ==
    \A i \in 1..Len(scans) :
        (scans[i].low /\ TokensLeft(i) > 0) =>
            Len(assigned[i]) =
                (TokensLeft(i) \div LinesLeft(i))
                    + (IF TokensLeft(i) % LinesLeft(i) > 0 THEN 1 ELSE 0)

(***************************************************************************)
(* C19. Cursor of the low-confidence branch, as stated: the cursor         *)
(* advances by the number of tokens assigned to the line and stays within  *)
(* 0..number of filtered tokens.  The code advances it by the allotment    *)
(* even when fewer tokens remain, so the statement is violated.            *)
(***************************************************************************)
C19_CursorCountsAssigned ==
    \A i \in 1..Len(scans) :
        scans[i].low =>
            /\ cursors[i] = CursorBefore(i) + Len(assigned[i])
            /\ cursors[i] \in 0..Len(clean_words)

(***************************************************************************)
(* C20. Matching rule, amended: during the scan of a line a token is       *)
(* accepted exactly when its lower-cased, punctuation-stripped text is a   *)
(* substring of, contains or equals ANY target word of the line at a       *)
(* position from matched-count on; a token that matches only a later       *)
(* target word is accepted too.                                            *)
(***************************************************************************)
C20_MatchesAnyRemainingTarget ==
    \A i \in 1..Len(scans) : \A j \in Examined(i) :
        (j \in Accepted(i)) <=>
            \E k \in (AcceptedBefore(i, j) + 1)..Len(TargetWords(i)) :
                WordMatches(TokenText(j), TargetWords(i)[k])

\* the line "Hello world" is scanned over the tokens world, Goodbye: "world"
\* does not match the next target "hello" and is accepted all the same
C20_Witness ==
    /\ Len(scans) >= 1
    /\ TargetWords(1) = << <<"h","e","l","l","o">>, <<"w","o","r","l","d">> >>
    /\ Len(clean_words) >= 2
    /\ TokenText(0) = <<"w","o","r","l","d">>
    /\ 0 \in Accepted(1)
    /\ 1 \in Examined(1) /\ 1 \notin Accepted(1)

\* C20 as stated: a token is accepted exactly when it matches the next
\* unmatched target word
C20_MatchesNextTargetOnly ==
    \A i \in 1..Len(scans) : \A j \in Examined(i) :
        (j \in Accepted(i)) <=>
            WordMatches(TokenText(j), TargetWords(i)[AcceptedBefore(i, j) + 1])

(***************************************************************************)
(* The specifications of the other functions hold the state of             *)
(* parse_lyrics_timing fixed: no call of it is in progress.                *)
(***************************************************************************)
parse_vars == <<lyrics_data, lyrics_arg, original_lyrics, clean_words,
                lyrics_lines, segments, word_index, line_idx, assigned,
                cursors, scans, pc, result>>

NoCall ==
    /\ lyrics_data = Response("none", FALSE, "absent", "absent", <<>>, NoneLyrics)
    /\ lyrics_arg = NoneLyrics
    /\ original_lyrics = NoneLyrics
    /\ clean_words = <<>>
    /\ lyrics_lines = <<>>
    /\ segments = <<>>
    /\ word_index = 0
    /\ line_idx = 0
    /\ assigned = <<>>
    /\ cursors = <<>>
    /\ scans = <<>>
    /\ pc = "no call"
    /\ result = <<>>

(***************************************************************************)
(* wrap_text_intelligently, lines 459-502.                                 *)
(***************************************************************************)
\* the longest text wrapped and the widest line asked for
MaxChars == 8

MaxWidth == 4

WrapChars == {"a", "b", " "}

WrapTexts == UNION { [1..n -> WrapChars] : n \in 0..MaxChars }

\* ' '.join(words)
RECURSIVE JoinWords(_)
JoinWords(ws) ==
    IF ws = <<>> THEN <<>>
    ELSE IF Len(ws) = 1 THEN ws[1]
    ELSE ws[1] \o <<" ">> \o JoinWords(Tail(ws))

\* a plausible slip: a text of exactly max_chars_per_line characters is split
FitsOnOneLine_Strict(text, max_chars_per_line) == Len(text) < max_chars_per_line

\* line 472: len(text) <= max_chars_per_line
FitsOnOneLine(text, max_chars_per_line) == Len(text) <= max_chars_per_line

\* a plausible slip: a text of two words is cut by characters as well
HardCut_TwoWords(words) == Len(words) <= 2

\* line 477: len(words) <= 1, the text is cut at max_chars_per_line characters
HardCut(words) == Len(words) <= 1

\* lines 485-490: the first index i (0-based) at which the accumulated length
\* reaches mid_point; best_split keeps len(words) // 2 when none does
RECURSIVE best_split(_, _, _, _)
best_split(words, mid_point, i, current_length) ==
    IF i >= Len(words) THEN Len(words) \div 2
    ELSE LET length == current_length + Len(words[i + 1])
                           + (IF i > 0 THEN 1 ELSE 0)
         IN  IF length >= mid_point THEN i
             ELSE best_split(words, mid_point, i + 1, length)

\* lines 493, 499: ' '.join(words[:best_split])
line1(words, split) == JoinWords(SubSeq(words, 1, split))

\* a plausible slip: the word at the split is dropped (words[best_split + 1:])
line2_SkipsWord(words, split) == JoinWords(SubSeq(words, split + 2, Len(words)))

\* lines 494, 500: ' '.join(words[best_split:])
line2(words, split) == JoinWords(SubSeq(words, split + 1, Len(words)))

wrap_text_intelligently(text, max_chars_per_line) ==
    IF FitsOnOneLine(text, max_chars_per_line) THEN <<text>>
    ELSE LET words == SplitWords(text)
         IN  IF HardCut(words)
             THEN <<SubSeq(text, 1, max_chars_per_line),
                    SubSeq(text, max_chars_per_line + 1, Len(text))>>
             ELSE LET mid_point == Len(text) \div 2
                      first == best_split(words, mid_point, 0, 0)
                      split == IF Len(line2(words, first)) > max_chars_per_line
                                  /\ first > 1
                               THEN first - 1
                               ELSE first
                  IN  IF line2(words, split) # <<>>
                      THEN <<line1(words, split), line2(words, split)>>
                      ELSE <<line1(words, split)>>

\* a call wrap_text_intelligently(text, max_chars_per_line) is about to run
InitWrap ==
    /\ NoCall
    /\ wrap \in { [pc |-> "call", text |-> t, max_chars_per_line |-> m, lines |-> <<>>] :
                    t \in WrapTexts, m \in 1..MaxWidth }
    /\ fix = Unused
    /\ workflow = Unused
    /\ frames = Unused
    /\ dims = Unused
    /\ cache = Unused
    /\ poll = Unused

\* the call returns its list of lines
WrapText ==
    /\ wrap.pc = "call"
    /\ wrap' = [wrap EXCEPT !.pc = "done",
                            !.lines = wrap_text_intelligently(wrap.text,
                                          wrap.max_chars_per_line)]
    /\ UNCHANGED parse_vars
    /\ UNCHANGED <<fix, workflow, frames, dims, cache, poll>>

NextWrap ==
    \/ WrapText

SpecWrap == InitWrap /\ [][NextWrap]_vars

\* the whitespace-delimited words of the text of the call
WrapWords == SplitWords(wrap.text)

\* the returned lines are whole runs of the words of the text, cut after word k
SplitsAfterWord(k) ==
    /\ wrap.lines[1] = JoinWords(SubSeq(WrapWords, 1, k))
    /\ IF Len(wrap.lines) = 2
       THEN wrap.lines[2] = JoinWords(SubSeq(WrapWords, k + 1, Len(WrapWords)))
       ELSE k = Len(WrapWords)

(***************************************************************************)
(* C13. wrap_text_intelligently returns one or two strings, and exactly    *)
(* [text] when len(text) <= max_chars_per_line.                            *)
(***************************************************************************)
C13_OneOrTwoLines ==
    wrap.pc = "done" =>
        /\ Len(wrap.lines) \in {1, 2}
        /\ Len(wrap.text) <= wrap.max_chars_per_line => wrap.lines = <<wrap.text>>

\* a text of two words that just fits is returned whole
C13_Witness ==
    /\ wrap.pc = "done"
    /\ Len(wrap.text) = wrap.max_chars_per_line
    /\ Len(WrapWords) = 2
    /\ wrap.lines = <<wrap.text>>

MaxText == 4

\* a, space, e-acute, A-tilde, copyright sign, A-circumflex, U+0083, euro sign
FixChars == {97, 32, 233, 195, 169, 194, 131, 8364}

FixTexts == UNION { [1..n -> FixChars] : n \in 0..MaxText }

\* the outcome of a codec that raises UnicodeEncodeError / UnicodeDecodeError
CodecError == <<-1>>

\* a plausible slip: the 'ascii' codec instead of 'latin-1'
encode_latin1_Ascii(text) ==
    IF \E i \in 1..Len(text) : text[i] > 127 THEN CodecError ELSE text

\* line 1084: text.encode('latin-1'), one byte per code point below 256
encode_latin1(text) ==
    IF \E i \in 1..Len(text) : text[i] > 255 THEN CodecError ELSE text

\* a continuation byte 10xxxxxx
IsContinuation(b) == b \in 128..191

\* line 1084: the number of bytes of the UTF-8 sequence that starts with the
\* bytes b1 b2 (0 when no well-formed sequence starts with them)
SequenceLength(b1, b2) ==
    IF b1 < 128 THEN 1
    ELSE IF b1 \in 194..223 THEN 2
    ELSE IF b1 = 224 THEN (IF b2 \in 160..191 THEN 3 ELSE 0)
    ELSE IF b1 = 237 THEN (IF b2 \in 128..159 THEN 3 ELSE 0)
    ELSE IF b1 \in 225..239 THEN 3
    ELSE IF b1 = 240 THEN (IF b2 \in 144..191 THEN 4 ELSE 0)
    ELSE IF b1 \in 241..243 THEN 4
    ELSE IF b1 = 244 THEN (IF b2 \in 128..143 THEN 4 ELSE 0)
    ELSE 0

\* line 1084: bytes.decode('utf-8'), strict
RECURSIVE decode_utf8(_)
decode_utf8(bytes) ==
    IF bytes = <<>> THEN <<>>
    ELSE LET b1 == bytes[1]
             n == SequenceLength(b1, IF Len(bytes) >= 2 THEN bytes[2] ELSE 0)
         IN  IF n = 0 \/ n > Len(bytes)
                \/ \E k \in 2..n : ~IsContinuation(bytes[k])
             THEN CodecError
             ELSE LET code == IF n = 1 THEN b1
                              ELSE IF n = 2
                              THEN (b1 - 192) * 64 + (bytes[2] - 128)
                              ELSE IF n = 3
                              THEN (b1 - 224) * 4096 + (bytes[2] - 128) * 64
                                       + (bytes[3] - 128)
                              ELSE (b1 - 240) * 262144 + (bytes[2] - 128) * 4096
                                       + (bytes[3] - 128) * 64 + (bytes[4] - 128)
                      rest == decode_utf8(SubSeq(bytes, n + 1, Len(bytes)))
                  IN  IF rest = CodecError THEN CodecError
                      ELSE <<code>> \o rest

\* lines 1089-1095: the table of mis-decoded pairs, <<first, second, good>>,
\* in the order of the dict
fixes ==
    << <<195, 161, 225>>, <<195, 169, 233>>, <<195, 173, 237>>,
       <<195, 179, 243>>, <<195, 186, 250>>, <<195, 32, 224>>,
       <<195, 168, 232>>, <<195, 172, 236>>, <<195, 178, 242>>,
       <<195, 185, 249>>, <<195, 162, 226>>, <<195, 170, 234>>,
       <<195, 174, 238>>, <<195, 180, 244>>, <<195, 187, 251>>,
       <<195, 163, 227>>, <<195, 177, 241>>, <<195, 167, 231>>,
       <<195, 164, 228>>, <<195, 182, 246>>, <<195, 188, 252>>,
       <<195, 191, 255>>, <<195, 8230, 197>>, <<195, 8224, 198>>,
       <<195, 732, 216>> >>

\* line 1099: result.replace(bad, good) for a two-character bad
RECURSIVE replace(_, _)
replace(text, fix_entry) ==
    IF Len(text) < 2 THEN text
    ELSE IF text[1] = fix_entry[1] /\ text[2] = fix_entry[2]
    THEN <<fix_entry[3]>> \o replace(SubSeq(text, 3, Len(text)), fix_entry)
    ELSE <<text[1]>> \o replace(Tail(text), fix_entry)

\* lines 1097-1100: the replacements of the table from entry k on
RECURSIVE apply_fixes(_, _)
apply_fixes(text, k) ==
    IF k > Len(fixes) THEN text
    ELSE apply_fixes(replace(text, fixes[k]), k + 1)

fix_double_utf8_encoding(text) ==
    IF text = <<>> THEN text
    ELSE LET bytes == encode_latin1(text)
             corrected == IF bytes = CodecError THEN CodecError
                          ELSE decode_utf8(bytes)
         IN  IF corrected # CodecError THEN corrected
             ELSE apply_fixes(text, 1)

\* a text is about to be normalized, and the result normalized once more
InitFix ==
    /\ NoCall
    /\ wrap = Unused
    /\ fix \in { [pc |-> "call", text |-> t, once |-> <<>>, twice |-> <<>>] :
                   t \in FixTexts }
    /\ workflow = Unused
    /\ frames = Unused
    /\ dims = Unused
    /\ cache = Unused
    /\ poll = Unused

\* fix_double_utf8_encoding(text)
FixOnce ==
    /\ fix.pc = "call"
    /\ fix' = [fix EXCEPT !.pc = "once",
                          !.once = fix_double_utf8_encoding(fix.text)]
    /\ UNCHANGED parse_vars
    /\ UNCHANGED <<wrap, workflow, frames, dims, cache, poll>>

\* fix_double_utf8_encoding applied to the result of the first call
FixTwice ==
    /\ fix.pc = "once"
    /\ fix' = [fix EXCEPT !.pc = "done",
                          !.twice = fix_double_utf8_encoding(fix.once)]
    /\ UNCHANGED parse_vars
    /\ UNCHANGED <<wrap, workflow, frames, dims, cache, poll>>

NextFix ==
    \/ FixOnce
    \/ FixTwice

SpecFix == InitFix /\ [][NextFix]_vars

(***************************************************************************)
(* Vocabulary of the encoding claims.                                      *)
(***************************************************************************)
\* the UTF-8 bytes of one code point
EncodeCodePoint(c) ==
    IF c < 128 THEN <<c>>
    ELSE IF c < 2048 THEN <<192 + (c \div 64), 128 + (c % 64)>>
    ELSE IF c < 65536
    THEN <<224 + (c \div 4096), 128 + ((c \div 64) % 64), 128 + (c % 64)>>
    ELSE <<240 + (c \div 262144), 128 + ((c \div 4096) % 64),
           128 + ((c \div 64) % 64), 128 + (c % 64)>>

\* the UTF-8 bytes of a text, read as Latin-1: the text mis-decoded once
RECURSIVE Misdecoded(_)
Misdecoded(t) ==
    IF t = <<>> THEN <<>> ELSE EncodeCodePoint(t[1]) \o Misdecoded(Tail(t))

\* a pair of the table occurs in the text
HasFixKey(t) ==
    \E i \in 1..(Len(t) - 1) : \E k \in 1..Len(fixes) :
        t[i] = fixes[k][1] /\ t[i + 1] = fixes[k][2]

\* clean text: no code point of U+0080..U+00BF (the continuation bytes read
\* as Latin-1) and no pair of the table
Clean(t) ==
    /\ \A i \in 1..Len(t) : t[i] \notin 128..191
    /\ ~HasFixKey(t)

\* the clean text that s is the single mis-decoding of, if there is one
Original(s) ==
    IF \E i \in 1..Len(s) : s[i] > 255 THEN CodecError ELSE decode_utf8(s)

SinglyMisdecoded(s) ==
    /\ Original(s) # CodecError
    /\ Original(s) # s
    /\ Clean(Original(s))
    /\ Misdecoded(Original(s)) = s

(***************************************************************************)
(* C16. Idempotence of the encoding normalizer, amended: for clean text    *)
(* (no code point of U+0080..U+00BF, no pair of the table) the normalizer  *)
(* returns the text; for the single mis-decoding of a clean text it        *)
(* returns the clean text; in both cases a second application returns the  *)
(* same.  Text mis-decoded more than once is repaired one level per        *)
(* application.                                                            *)
(***************************************************************************)
C16_IdempotentOnCleanAndSingle ==
    fix.pc = "done" =>
        /\ Clean(fix.text) => (fix.once = fix.text /\ fix.twice = fix.once)
        /\ SinglyMisdecoded(fix.text) =>
               (fix.once = Original(fix.text) /\ fix.twice = fix.once)

\* "A-tilde, copyright sign" is repaired to "e-acute" and stays
C16_Witness ==
    /\ fix.pc = "done"
    /\ fix.text = <<97, 195, 169>>
    /\ SinglyMisdecoded(fix.text)
    /\ fix.once = <<97, 233>>
    /\ fix.twice = <<97, 233>>

\* C16 as stated: normalizing twice equals normalizing once, for every text
C16_Idempotent ==
    fix.pc = "done" => fix.twice = fix.once

(***************************************************************************)
(* create_video_workflow, lines 794-890 (and the same steps in             *)
(* create_video_gradio_interface, lines 1000-1019): fetch the timestamped  *)
(* lyrics, normalize the stored lyrics, call parse_lyrics_timing.          *)
(***************************************************************************)
\* ord(c) of the characters of the stored lyrics
CharCodes ==
    { <<"\n", 10>>, <<" ", 32>>, <<"a", 97>>, <<"c", 99>>, <<"d", 100>>,
      <<"h", 104>>, <<"t", 116>>, <<"u", 117>>, <<"©", 169>>, <<"Ã", 195>>,
      <<"é", 233>> }

ord(c) == (CHOOSE p \in CharCodes : p[1] = c)[2]

chr(n) == (CHOOSE p \in CharCodes : p[2] = n)[1]

\* fix_double_utf8_encoding on a text given by its characters
fix_text(text) ==
    LET codes == [i \in 1..Len(text) |-> ord(text[i])]
        fixed == fix_double_utf8_encoding(codes)
    IN  [i \in 1..Len(fixed) |-> chr(fixed[i])]

EteChaud == <<"é","t","é"," ","c","h","a","u","d">>

\* the same line mis-decoded once
EteChaudMisdecoded == <<"Ã","©","t","Ã","©"," ","c","h","a","u","d">>

\* music_info.get('paroles', '')
WorkflowLyrics ==
    { EteChaud, EteChaudMisdecoded, <<"c","h","a","u","d">> \o <<"\n">> \o EteChaud,
      <<>> }

\* the words the API may report for the song, in order
WorkflowWordStream ==
    << Word(<<"Ã","©","t","Ã","©">>, 0,  5, TRUE, TRUE),
       Word(<<"é","t","é">>,         0,  5, TRUE, TRUE),
       Word(<<"c","h","a","u","d">>, 5, 10, TRUE, TRUE),
       Word(<<"o","h">>,             0,  0, TRUE, FALSE) >>

\* what get_timestamped_lyrics_with_cache may return: None, a response
\* without data, a response with aligned words
WorkflowResponses ==
    { Response("none", FALSE, "absent", "absent", <<>>, NoneLyrics),
      Response("dict", TRUE,  "absent", "absent", <<>>, NoneLyrics) }
        \cup { Response("dict", FALSE, "dict", "list",
                        Pick(WorkflowWordStream, ps), NoneLyrics) :
                   ps \in SUBSET (1..Len(WorkflowWordStream)) }

InitWorkflow ==
    /\ NoCall
    /\ wrap = Unused
    /\ fix = Unused
    /\ workflow \in { [pc |-> "fetch", lyrics_data |-> r, paroles |-> l,
                        original_lyrics |-> <<>>, normalized |-> {}] :
                        r \in WorkflowResponses, l \in WorkflowLyrics }
    /\ frames = Unused
    /\ dims = Unused
    /\ cache = Unused
    /\ poll = Unused

\* lines 851-859: without timestamped lyrics the workflow gives up
FetchLyrics ==
    /\ workflow.pc = "fetch"
    /\ workflow' = [workflow EXCEPT
                       !.pc = IF TruthyResponse(workflow.lyrics_data)
                              THEN "normalize" ELSE "failed"]
    /\ UNCHANGED parse_vars
    /\ UNCHANGED <<wrap, fix, frames, dims, cache, poll>>

\* lines 865-867: the stored lyrics go through the normalizer; normalized
\* records the texts the normalizer has been called on
NormalizeLyrics ==
    /\ workflow.pc = "normalize"
    /\ workflow' = [workflow EXCEPT
                       !.pc = "call",
                       !.original_lyrics = fix_text(workflow.paroles),
                       !.normalized = @ \cup {workflow.paroles}]
    /\ UNCHANGED parse_vars
    /\ UNCHANGED <<wrap, fix, frames, dims, cache, poll>>

\* line 868: parse_lyrics_timing(lyrics_data, original_lyrics) is entered
CallParse ==
    /\ workflow.pc = "call"
    /\ workflow' = [workflow EXCEPT !.pc = "parsing"]
    /\ lyrics_data' = workflow.lyrics_data
    /\ lyrics_arg' = Str(workflow.original_lyrics)
    /\ original_lyrics' = Str(workflow.original_lyrics)
    /\ pc' = "start"
    /\ UNCHANGED <<clean_words, lyrics_lines, segments, word_index, line_idx,
                   assigned, cursors, scans, result>>
    /\ UNCHANGED <<wrap, fix, frames, dims, cache, poll>>

\* lines 868-870: the call has returned; no segments ends the workflow
ParseReturns ==
    /\ workflow.pc = "parsing"
    /\ pc = "done"
    /\ workflow' = [workflow EXCEPT
                       !.pc = IF result = <<>> THEN "no segments" ELSE "video"]
    /\ UNCHANGED parse_vars
    /\ UNCHANGED <<wrap, fix, frames, dims, cache, poll>>

NextWorkflow ==
    \/ FetchLyrics
    \/ NormalizeLyrics
    \/ CallParse
    \/ CheckPayload
    \/ Fallback
    \/ FilterWords
    \/ ParseLines
    \/ AlignLine
    \/ ReturnSegments
    \/ HandleException
    \/ ParseReturns

SpecWorkflow == InitWorkflow /\ [][NextWorkflow]_vars

\* the texts of the tokens that a scan has compared with target words
ComparedTexts ==
    {clean_words[j + 1].word : j \in UNION {Examined(i) : i \in 1..Len(scans)}}

(***************************************************************************)
(* C17. Normalize before compare: whenever a word has been compared with   *)
(* a target word of a lyric line, the normalizer has been applied to the   *)
(* stored lyric text and to the text of that API-reported word.  The code  *)
(* normalizes the lyric text only, so the statement is violated.           *)
(***************************************************************************)
C17_NormalizedBeforeCompare ==
    ComparedTexts # {} =>
        /\ workflow.paroles \in workflow.normalized
        /\ \A k \in 1..Len(lyrics_data.alignedWords) :
               LET word_data == lyrics_data.alignedWords[k]
               IN  (/\ CleanWord(word_data) # <<>>
                    /\ CleanWord(word_data)[1].word \in ComparedTexts)
                       => word_data.word \in workflow.normalized

(***************************************************************************)
(* Two invocations of parse_lyrics_timing, lines 181-407.  Each is run     *)
(* alone first, the second on the variables the first left behind; then    *)
(* both are called and interleaved step by step.  The variables of the     *)
(* module hold the locals of the running invocation, frames.saved those    *)
(* of the suspended one.                                                   *)
(***************************************************************************)
Input(response, lyrics) == [lyrics_data |-> response, lyrics_arg |-> lyrics]

WordsResponse(ps) ==
    Response("dict", FALSE, "dict", "list", Pick(WordStream, ps), NoneLyrics)

\* the calls: scenario A, a low-confidence line, a missing payload, a word
\* with a non-numeric time, a skipped word, no word left after the filter
PairInputs ==
    { Input(WordsResponse({2, 5, 7, 9}),
            Str(JoinLines(<<HelloWorld, <<" ">> \o GoodbyeNow \o <<" ">> >>))),
      Input(WordsResponse({9}),
            Str(JoinLines(<< <<"H","e","l","l","o">>, <<"H","e","l","l","o">> >>))),
      Input(Response("dict", TRUE, "null", "absent", <<>>, NoneLyrics),
            Str(HelloWorld)),
      Input(WordsResponse({2, 8}), Str(HelloWorld)),
      Input(WordsResponse({2, 4, 5}),
            Str(JoinLines(<<HelloWorld, <<"H","e","l","l","o">> >>))),
      Input(WordsResponse({1, 3, 6}), Str(HelloWorld)) }

\* the positions of a call that has not returned to its caller
RunningPcs == {"start", "fallback", "words", "lines", "match", "except", "done"}

\* the locals of the running invocation
Locals ==
    [lyrics_data |-> lyrics_data, lyrics_arg |-> lyrics_arg,
     original_lyrics |-> original_lyrics, clean_words |-> clean_words,
     lyrics_lines |-> lyrics_lines, segments |-> segments,
     word_index |-> word_index, line_idx |-> line_idx, assigned |-> assigned,
     cursors |-> cursors, scans |-> scans, pc |-> pc, result |-> result]

\* the locals of a call with arguments input, entered on the variables a
\* previous call left behind
Entered(input) ==
    [Locals EXCEPT !.lyrics_data = input.lyrics_data,
                   !.lyrics_arg = input.lyrics_arg,
                   !.original_lyrics = input.lyrics_arg,
                   !.pc = "start"]

\* the variables of the module take the locals of frame f
Resume(f) ==
    /\ lyrics_data' = f.lyrics_data
    /\ lyrics_arg' = f.lyrics_arg
    /\ original_lyrics' = f.original_lyrics
    /\ clean_words' = f.clean_words
    /\ lyrics_lines' = f.lyrics_lines
    /\ segments' = f.segments
    /\ line_idx' = f.line_idx
    /\ assigned' = f.assigned
    /\ cursors' = f.cursors
    /\ scans' = f.scans
    /\ pc' = f.pc
    /\ result' = f.result

\* a plausible slip: the cursor is a module-level variable, shared by the
\* invocations
LocalCursor_Global(f) == word_index

\* line 323: word_index is a local, every invocation has its own
LocalCursor(f) == f.word_index

InitPair ==
    /\ NoCall
    /\ wrap = Unused
    /\ fix = Unused
    /\ workflow = Unused
    /\ dims = Unused
    /\ cache = Unused
    /\ poll = Unused
    /\ frames \in { [phase |-> "solo", running |-> 1, inputs |-> <<a, b>>,
                      alone |-> <<<<>>, <<>>>>, solo_done |-> {},
                      results |-> <<<<>>, <<>>>>, pair_done |-> {},
                      saved |-> Unused, interleaved |-> FALSE] :
                      a \in PairInputs, b \in PairInputs }

\* invocation frames.running is called alone
SoloCall ==
    /\ frames.phase = "solo"
    /\ pc \in {"no call", "returned"}
    /\ Resume(Entered(frames.inputs[frames.running]))
    /\ word_index' = Entered(frames.inputs[frames.running]).word_index
    /\ UNCHANGED other_vars

\* the invocation run alone returns; after the second one the pair follows
SoloReturn ==
    /\ frames.phase = "solo"
    /\ pc = "done"
    /\ frames' = [frames EXCEPT
                     !.alone[frames.running] = result,
                     !.solo_done = @ \cup {frames.running},
                     !.running = IF frames.running = 1 THEN 2 ELSE 1,
                     !.phase = IF frames.running = 1 THEN "solo" ELSE "pair"]
    /\ pc' = "returned"
    /\ UNCHANGED <<lyrics_data, lyrics_arg, original_lyrics, clean_words,
                   lyrics_lines, segments, word_index, line_idx, assigned,
                   cursors, scans, result>>
    /\ UNCHANGED <<wrap, fix, workflow, dims, cache, poll>>

\* both invocations are called: the first runs, the second waits at its
\* first statement
PairCall ==
    /\ frames.phase = "pair"
    /\ frames.saved = Unused
    /\ pc = "returned"
    /\ Resume(Entered(frames.inputs[1]))
    /\ word_index' = Entered(frames.inputs[1]).word_index
    /\ frames' = [frames EXCEPT !.saved = Entered(frames.inputs[2])]
    /\ UNCHANGED <<wrap, fix, workflow, dims, cache, poll>>

\* the scheduler suspends the running invocation and resumes the other
Switch ==
    /\ frames.phase = "pair"
    /\ frames.saved # Unused
    /\ frames.saved.pc \in RunningPcs
    /\ Resume(frames.saved)
    /\ word_index' = LocalCursor(frames.saved)
    /\ frames' = [frames EXCEPT
                     !.saved = Locals,
                     !.running = IF frames.running = 1 THEN 2 ELSE 1,
                     !.interleaved = @ \/ (/\ pc = "match"
                                           /\ 0 < line_idx
                                           /\ line_idx < Len(lyrics_lines))]
    /\ UNCHANGED <<wrap, fix, workflow, dims, cache, poll>>

\* the running invocation of the pair returns to its caller
PairReturn ==
    /\ frames.phase = "pair"
    /\ frames.saved # Unused
    /\ pc = "done"
    /\ frames' = [frames EXCEPT
                     !.results[frames.running] = result,
                     !.pair_done = @ \cup {frames.running}]
    /\ pc' = "returned"
    /\ UNCHANGED <<lyrics_data, lyrics_arg, original_lyrics, clean_words,
                   lyrics_lines, segments, word_index, line_idx, assigned,
                   cursors, scans, result>>
    /\ UNCHANGED <<wrap, fix, workflow, dims, cache, poll>>

NextPair ==
    \/ SoloCall
    \/ SoloReturn
    \/ PairCall
    \/ Switch
    \/ PairReturn
    \/ CheckPayload
    \/ Fallback
    \/ FilterWords
    \/ ParseLines
    \/ AlignLine
    \/ ReturnSegments
    \/ HandleException

SpecPair == InitPair /\ [][NextPair]_vars

(***************************************************************************)
(* C11. Determinism: runs of parse_lyrics_timing on equal arguments        *)
(* return identical segment sequences, whether the run starts on fresh     *)
(* variables, on the variables another run left behind, or is interleaved  *)
(* with another invocation.                                                *)
(***************************************************************************)
C11_Determinism ==
    frames.inputs[1] = frames.inputs[2] =>
        /\ frames.solo_done = {1, 2} => frames.alone[1] = frames.alone[2]
        /\ \A k \in frames.pair_done : frames.results[k] = frames.alone[1]

\* scenario A four times: alone on fresh variables, alone on the variables
\* of the first run, and twice interleaved in the middle of the loop
C11_Witness ==
    /\ frames.inputs[1] = frames.inputs[2]
    /\ frames.solo_done = {1, 2}
    /\ frames.pair_done = {1, 2}
    /\ frames.interleaved
    /\ Len(frames.alone[1]) = 2
    /\ frames.results[2] = frames.alone[1]

(***************************************************************************)
(* C12. Concurrent independence: interleaved step by step in any order,    *)
(* each of two invocations returns what it returns when run alone; the     *)
(* arguments of the running and of the suspended invocation are the ones   *)
(* they were called with.                                                  *)
(***************************************************************************)
C12_Independence ==
    frames.phase = "pair" =>
        /\ \A k \in frames.pair_done : frames.results[k] = frames.alone[k]
        /\ (frames.saved # Unused /\ pc \in RunningPcs) =>
               /\ lyrics_data = frames.inputs[frames.running].lyrics_data
               /\ lyrics_arg = frames.inputs[frames.running].lyrics_arg
        /\ (frames.saved # Unused /\ frames.saved.pc \in RunningPcs) =>
               /\ frames.saved.lyrics_data =
                      frames.inputs[3 - frames.running].lyrics_data
               /\ frames.saved.lyrics_arg =
                      frames.inputs[3 - frames.running].lyrics_arg

\* scenario A and the low-confidence call, switched in the middle of the
\* loop, both returned
C12_Witness ==
    /\ frames.phase = "pair"
    /\ frames.pair_done = {1, 2}
    /\ frames.interleaved
    /\ frames.inputs[1] # frames.inputs[2]
    /\ Len(frames.results[1]) = 2
    /\ Len(frames.results[2]) = 2
    /\ frames.results[1] # frames.results[2]

(***************************************************************************)
(* calculate_720p_dimensions, lines 410-456.  The aspect ratio is a float: *)
(* int(n * (a / b)) is the integer part of n*a/b, except that when b       *)
(* divides n*a the two roundings may leave the product just below the      *)
(* exact integer, and int() then yields one less (720 * (39 / 1080) is     *)
(* 25.999999999999996).  Which of the two happens depends on the operands' *)
(* binary expansions, so both outcomes are kept.                           *)
(***************************************************************************)
MaxSide == 12

\* the original image sizes: the small ones and the ones around the limits
SideLengths ==
    (1..MaxSide) \cup {639, 640, 719, 720, 721, 1080, 1279, 1280, 1281, 1920,
                       2160, 2561, 3840}

\* line 421
max_height == 720

\* line 422
max_width == 1280

\* lines 435, 439, 444, 448: int(limit * (a / b)), or int(limit / (b / a))
Scaled(limit, a, b) ==
    LET q == (limit * a) \div b
    IN  IF (limit * a) % b = 0 THEN {q - 1, q} ELSE {q}

\* lines 453-454: n if n % 2 == 0 else n - 1
MakeEven(n) == IF n % 2 = 0 THEN n ELSE n - 1

\* lines 410-456: the sizes the call may return
calculate_720p_dimensions(original_width, original_height) ==
    IF original_height <= max_height /\ original_width <= max_width
    THEN {<<original_width, original_height>>}
    ELSE LET by_height == {<<new_width, max_height>> :
                 new_width \in Scaled(max_height, original_width, original_height)}
             by_width == {<<max_width, new_height>> :
                 new_height \in Scaled(max_width, original_height, original_width)}
             scaled == IF original_height > max_height THEN by_height
                       ELSE by_width
             width_capped == UNION {IF d[1] > max_width THEN by_width ELSE {d} :
                                      d \in scaled}
             height_capped == UNION {IF d[2] > max_height THEN by_height ELSE {d} :
                                       d \in width_capped}
         IN  {<<MakeEven(d[1]), MakeEven(d[2])>> : d \in height_capped}

InitDims ==
    /\ NoCall
    /\ wrap = Unused
    /\ fix = Unused
    /\ workflow = Unused
    /\ frames = Unused
    /\ cache = Unused
    /\ poll = Unused
    /\ dims \in {[pc |-> "call", original_width |-> w, original_height |-> h,
                  result |-> <<>>] : w \in SideLengths, h \in SideLengths}

\* line 560: video_size = calculate_720p_dimensions(width, height)
CalculateDimensions ==
    /\ dims.pc = "call"
    /\ \E size \in calculate_720p_dimensions(dims.original_width,
                                             dims.original_height) :
           dims' = [dims EXCEPT !.pc = "done", !.result = size]
    /\ UNCHANGED parse_vars
    /\ UNCHANGED <<wrap, fix, workflow, frames, cache, poll>>

NextDims == CalculateDimensions

SpecDims == InitDims /\ [][NextDims]_vars

(***************************************************************************)
(* C27. Video size, as stated: for every pair of positive original         *)
(* dimensions the returned width is at most 1280, the returned height at   *)
(* most 720, and both are even.  The early return of line 425 hands back   *)
(* an image that already fits as it is, odd sides included, so the         *)
(* statement is violated.                                                  *)
(***************************************************************************)
C27_EvenWithin720p ==
    dims.pc = "done" =>
        /\ dims.result[1] <= 1280
        /\ dims.result[2] <= 720
        /\ dims.result[1] % 2 = 0
        /\ dims.result[2] % 2 = 0

(***************************************************************************)
(* C30. Wrapping, as stated: for a text of at least two words that is      *)
(* longer than max_chars_per_line both returned strings are non-empty.     *)
(* When the first word alone reaches the character midpoint the loop of    *)
(* lines 485-490 leaves best_split = 0, words[:0] is empty and the first   *)
(* returned string is '', so the statement is violated.                    *)
(***************************************************************************)
C30_NoEmptyLine ==
    (/\ wrap.pc = "done"
     /\ Len(WrapWords) >= 2
     /\ Len(wrap.text) > wrap.max_chars_per_line) =>
        \A k \in 1..Len(wrap.lines) : wrap.lines[k] # <<>>

(***************************************************************************)
(* Long token streams.  The runaway guard of line 350 and the 0.3          *)
(* threshold of line 354 only show on a line of one target word followed   *)
(* by more than three tokens, and on a line of four target words: this     *)
(* specification calls parse_lyrics_timing with streams of up to MaxTokens *)
(* accepted tokens (token k lasts from second k-1 to second k) and lyrics  *)
(* of up to MaxScanLines lines.                                            *)
(***************************************************************************)
MaxTokens == 5

MaxScanLines == 3

\* the words the API reports
ScanWords == { <<"H","e","l","l","o">>, <<"w","o","r","l","d">> }

\* the word list of a response: token k carries word ws[k]
ScanStream(ws) == [k \in 1..Len(ws) |-> Word(ws[k], Seconds(k - 1), Seconds(k), TRUE, TRUE)]

ScanStreams == UNION { { ScanStream(ws) : ws \in [1..n -> ScanWords] } : n \in 0..MaxTokens }

\* the lyric lines: one target word, four target words
ScanLinePool == { <<"H","e","l","l","o">>, HelloWorld \o <<" ">> \o GoodbyeNow }

ScanTexts == UNION { { JoinLines(ls) : ls \in [1..n -> ScanLinePool] } : n \in 0..MaxScanLines }

\* a call with a word list and lyrics, or with one of the arguments unusable
InitScan ==
    /\ \/ /\ lyrics_data \in { Response("dict", FALSE, "dict", "list", ws, NoneLyrics) :
                                 ws \in ScanStreams }
          /\ lyrics_arg \in { Str(t) : t \in ScanTexts }
       \/ /\ lyrics_data = Response("dict", TRUE, "null", "absent", <<>>, NoneLyrics)
          /\ lyrics_arg \in { Str(t) : t \in ScanTexts }
       \/ /\ lyrics_data = Response("dict", FALSE, "dict", "list",
                                    ScanStream(<< <<"w","o","r","l","d">> >>), NoneLyrics)
          /\ lyrics_arg = NotAString
    /\ InitLocals
    /\ wrap = Unused
    /\ fix = Unused
    /\ workflow = Unused
    /\ frames = Unused
    /\ dims = Unused
    /\ cache = Unused
    /\ poll = Unused

SpecScan == InitScan /\ [][Next]_vars

\* the number of tokens the scan of line i examined
ExaminedCount(i) == scans[i].temp_word_index - CursorBefore(i)

(***************************************************************************)
(* C21. Scan bound: for a line with n target words the forward scan stops  *)
(* as soon as n tokens are matched, the tokens are exhausted, or more than *)
(* 3*n tokens have been examined, and not before; it examines at most      *)
(* 3*n + 1 tokens, the scan pointer is the cursor plus the number of       *)
(* examined tokens, the match count is the number of accepted tokens and   *)
(* every accepted token was examined.                                      *)
(***************************************************************************)
C21_ScanBound ==
    \A i \in 1..Len(scans) :
        LET n == Len(TargetWords(i))
            last == scans[i].temp_word_index - 1
        IN  /\ ExaminedCount(i) >= 0
            /\ ExaminedCount(i) <= 3 * n + 1
            /\ scans[i].matched_words = Len(scans[i].line_words)
            /\ Accepted(i) \subseteq Examined(i)
            /\ \/ scans[i].matched_words = n
               \/ scans[i].temp_word_index >= Len(clean_words)
               \/ ExaminedCount(i) > 3 * n
            /\ ExaminedCount(i) > 0 =>
                   /\ AcceptedBefore(i, last) < n
                   /\ last < Len(clean_words)
                   /\ ExaminedCount(i) - 1 <= 3 * n

\* the line "Hello" over five tokens world, none of which matches: the guard
\* stops the scan after four tokens, with a token left
C21_Witness ==
    /\ Len(scans) >= 1
    /\ Len(TargetWords(1)) = 1
    /\ Len(clean_words) = 5
    /\ scans[1].temp_word_index = 4
    /\ scans[1].matched_words = 0

(***************************************************************************)
(* C22. Acceptance test: with n target words and m matched tokens the line *)
(* takes the low-confidence branch exactly when m < 0.3*n.  An accepted    *)
(* line keeps the matched tokens and moves the cursor to the scan pointer, *)
(* past the examined tokens that did not match; a low-confidence line      *)
(* keeps none of the matched run: it is given the consecutive tokens from  *)
(* the cursor it started with.                                             *)
(***************************************************************************)
C22_AcceptanceTest ==
    \A i \in 1..Len(scans) :
        LET n == Len(TargetWords(i))
            m == scans[i].matched_words
        IN  /\ scans[i].low <=> (10 * m < 3 * n)
            /\ ~scans[i].low =>
                   /\ assigned[i] = scans[i].line_words
                   /\ cursors[i] = scans[i].temp_word_index
            /\ scans[i].low =>
                   /\ \A k \in 1..Len(assigned[i]) :
                          assigned[i][k] = CursorBefore(i) + k - 1
                   /\ Len(assigned[i]) =
                          Max(0, Min(scans[i].count, TokensLeft(i)))

\* tokens world, Hello, Hello, Hello: the line "Hello" is accepted with its
\* one match and consumes the unmatched world before it; the four-word line
\* matches one token for four targets (0.25 < 0.3), and gets the next two
\* tokens
C22_Witness ==
    /\ Len(scans) = 2
    /\ Len(TargetWords(1)) = 1 /\ Len(TargetWords(2)) = 4
    /\ ~scans[1].low /\ assigned[1] = <<1>> /\ cursors[1] = 2
    /\ scans[2].low /\ scans[2].line_words = <<2>> /\ assigned[2] = <<2, 3>>

(***************************************************************************)
(* C29. In the matching loop the lines that receive no token form a        *)
(* suffix: the first line receives at least one token, a line after a      *)
(* line without tokens receives none, and therefore a segment with         *)
(* estimated timing starts at the end of the previous segment, never at    *)
(* line_idx * 3.                                                           *)
(***************************************************************************)
C29_TokenlessSuffix ==
    /\ Len(assigned) >= 1 => assigned[1] # <<>>
    /\ \A i \in 2..Len(assigned) :
           assigned[i - 1] = <<>> => assigned[i] = <<>>
    /\ \A i \in 1..Len(assigned) :
           assigned[i] = <<>> =>
               /\ i > 1
               /\ segments[i][1] = segments[i - 1][2]
               /\ segments[i][2] = segments[i][1] + Seconds(3)

\* one token for three lines: the second and the third line are estimated
C29_Witness ==
    /\ pc = "done"
    /\ Len(clean_words) = 1
    /\ Len(assigned) = 3
    /\ assigned[1] = <<0>>
    /\ assigned[2] = <<>> /\ assigned[3] = <<>>
    /\ result[3][1] = result[2][2]
    /\ result[2][1] # Seconds(3) /\ result[3][1] # Seconds(6)

(***************************************************************************)
(* C23. Timing derivation: a line with tokens starts at the start of its   *)
(* first token and ends at the end of its last token, or 2.0 seconds after *)
(* its start when that is later; a line without tokens starts at the       *)
(* (padded) end of the previous segment, or at line_idx * 3 when there is  *)
(* no segment yet, and lasts 3.0 seconds.                                  *)
(***************************************************************************)
C23_TimingDerivation ==
    \A i \in 1..Len(assigned) :
        IF assigned[i] # <<>>
        THEN /\ segments[i][1] = FirstWord(i).start
             /\ segments[i][2] =
                    IF LastWord(i).end - FirstWord(i).start < Seconds(2)
                    THEN FirstWord(i).start + Seconds(2)
                    ELSE LastWord(i).end
        ELSE /\ segments[i][1] =
                    IF i > 1 THEN segments[i - 1][2] ELSE Seconds((i - 1) * 3)
             /\ segments[i][2] = segments[i][1] + Seconds(3)

\* one token of one second for two lines: the first segment is padded to
\* (0, 2.0), the second is estimated from the padded end, (2.0, 5.0)
C23_Witness ==
    /\ Len(assigned) = 2
    /\ assigned[1] = <<0>>
    /\ LastWord(1).end = Seconds(1)
    /\ segments[1][2] = Seconds(2)
    /\ assigned[2] = <<>>
    /\ segments[2][1] = Seconds(2)
    /\ segments[2][2] = Seconds(5)

\* the tokens are in time order: each ends no earlier than it starts and
\* starts no earlier than the previous one ends
MonotoneTokens ==
    \A k \in 1..Len(clean_words) :
        /\ clean_words[k].end >= clean_words[k].start
        /\ k > 1 => clean_words[k].start >= clean_words[k - 1].end

\* the segment of line i was extended to the minimum duration
Padded(i) ==
    /\ assigned[i] # <<>>
    /\ LastWord(i).end - FirstWord(i).start < Seconds(2)

(***************************************************************************)
(* C28. Display windows, amended: for tokens in time order the end of the  *)
(* last token of a line is never later than the start of the next          *)
(* segment, and the end of a segment is never later than the start of the  *)
(* next one unless the segment was extended by the minimum-duration        *)
(* padding and the next line is timed from tokens.                         *)
(***************************************************************************)
C28_NoOverlapUnlessPadded ==
    (AlignerRan /\ MonotoneTokens) =>
        \A i \in 1..(Len(segments) - 1) :
            /\ assigned[i] # <<>> => LastWord(i).end <= segments[i + 1][1]
            /\ (~Padded(i) \/ assigned[i + 1] = <<>>) =>
                   segments[i][2] <= segments[i + 1][1]

\* tokens Hello, world, world, world, world for three lines "Hello": the
\* first segment (0, 1.0) is padded to 2.0 and overlaps the second (1.0, 3.0),
\* which is not padded and ends where the third starts
C28_Witness ==
    /\ AlignerRan /\ MonotoneTokens
    /\ Len(segments) = 3 /\ Len(assigned) = 3
    /\ Padded(1)
    /\ segments[1][2] > segments[2][1]
    /\ assigned[2] # <<>> /\ ~Padded(2)
    /\ assigned[3] # <<>>
    /\ segments[2][2] = segments[3][1]

\* C28 as stated: consecutive windows never overlap
C28_NoOverlap ==
    (AlignerRan /\ MonotoneTokens) =>
        \A i \in 1..(Len(segments) - 1) : segments[i][2] <= segments[i + 1][1]

\* the token is kept by the filter: flagged successful, not blank, and its
\* trimmed lower-cased text neither is nor begins with a structural marker
Usable(token) ==
    /\ token.success
    /\ Strip(token.word) # <<>>
    /\ ~BeginsWithMarker(Lower(Strip(ReplaceNewlines(Strip(token.word)))))

\* the tokens of the response the filter keeps, in stream order
UsableTokens == SelectSeq(lyrics_data.alignedWords, Usable)

(***************************************************************************)
(* C24. Token filtering: the filtered tokens are exactly the tokens that   *)
(* are flagged successful, not blank and not structural, so a token that   *)
(* fails one of the three is never assigned to a line, gives no start or   *)
(* end time to a segment, and is not counted by the match count, the scan  *)
(* bound or the distribution quota of any line.                            *)
(***************************************************************************)
C24_FilteredTokensUnused ==
    clean_words # <<>> =>
        /\ Len(clean_words) = Len(UsableTokens)
        /\ \A k \in 1..Len(clean_words) :
               /\ clean_words[k].start = UsableTokens[k].startS
               /\ clean_words[k].end = UsableTokens[k].endS
        /\ \A i \in 1..Len(assigned) :
               /\ \A k \in 1..Len(assigned[i]) :
                      assigned[i][k] \in 0..(Len(UsableTokens) - 1)
               /\ assigned[i] # <<>> =>
                      /\ segments[i][1] = UsableTokens[assigned[i][1] + 1].startS
                      /\ segments[i][2] \in
                             { UsableTokens[assigned[i][Len(assigned[i])] + 1].endS,
                               segments[i][1] + Seconds(2) }
        /\ \A i \in 1..Len(scans) :
               /\ Accepted(i) \subseteq 0..(Len(UsableTokens) - 1)
               /\ scans[i].matched_words = Cardinality(Accepted(i))
               /\ scans[i].temp_word_index <= Max(CursorBefore(i), Len(UsableTokens))
               /\ scans[i].count =
                      Max(1, Len(UsableTokens) \div Len(lyrics_lines))
                          + (IF i - 1 < Len(UsableTokens) % Len(lyrics_lines)
                             THEN 1 ELSE 0)

\* the response holds the header "Verse\n", Hello, the unrecognized la and a
\* blank token; the line "Hello" is timed by Hello alone
C24_Witness ==
    /\ pc = "done"
    /\ Len(lyrics_data.alignedWords) = 4
    /\ \E k \in 1..4 : ~lyrics_data.alignedWords[k].success
    /\ \E k \in 1..4 : Strip(lyrics_data.alignedWords[k].word) = <<>>
    /\ \E k \in 1..4 : lyrics_data.alignedWords[k].word = <<"V","e","r","s","e","\n">>
    /\ Len(clean_words) = 1
    /\ assigned = << <<0>> >>
    /\ result = << <<0, Seconds(2), <<"H","e","l","l","o">>>> >>

(***************************************************************************)
(* The lyrics cache, lines 57-178: successive calls of                     *)
(* get_timestamped_lyrics_with_cache for one music file.  cache.entry is   *)
(* the 'timestamped_lyrics' value stored for the file in savedData.json    *)
(* (None when nothing is stored); the API answers each request with any    *)
(* of its response shapes; cache.log keeps, for every finished call, the   *)
(* entry it found, the number of requests it sent, how it ended, the value *)
(* it returned and the entry it left.                                      *)
(***************************************************************************)
MaxCalls == 3

\* None: nothing stored, or the request failed (lines 48-53)
NoResponse == Response("none", FALSE, "absent", "absent", <<>>, NoneLyrics)

\* {data: {alignedWords: [Hello]}}
WordsResponse1 ==
    Response("dict", FALSE, "dict", "list", <<WordStream[2]>>, NoneLyrics)

\* what a request may return: None, {}, {msg}, {data: null, msg},
\* {data: "..."}, {data: {}}, {data: null}, {data: {alignedWords: []}},
\* {data: {alignedWords: [Hello]}}
ApiResponses ==
    ResponsesWithoutWords
        \cup { Response("dict", FALSE, "null", "absent", <<>>, NoneLyrics),
               Response("dict", FALSE, "dict", "list", <<>>, NoneLyrics),
               WordsResponse1 }

\* bool(response.get('data'))
TruthyData(r) ==
    \/ r.data = "str"
    \/ r.data = "dict" /\ (r.aligned = "list" \/ r.lyrics.kind # "none")

\* lines 157-158: cached_data.get('data', {}).get('alignedWords') is truthy
TruthyAlignedWords(r) == r.aligned = "list" /\ r.alignedWords # <<>>

CacheIdle(entry, calls, log) ==
    [pc |-> "idle", entry |-> entry, calls |-> calls, log |-> log,
     found |-> NoResponse, cached_data |-> NoResponse,
     fresh_data |-> NoResponse, requests |-> 0]

\* savedData.json holds nothing for the file, or a response an earlier run
\* stored (line 176 stores truthy responses only)
InitCache ==
    /\ NoCall
    /\ wrap = Unused
    /\ fix = Unused
    /\ workflow = Unused
    /\ frames = Unused
    /\ dims = Unused
    /\ poll = Unused
    /\ cache \in { CacheIdle(e, 0, <<>>) :
                     e \in {NoResponse} \cup {r \in ApiResponses : TruthyResponse(r)} }

\* line 851: the workflow calls get_timestamped_lyrics_with_cache
CallWithCache ==
    /\ cache.pc = "idle"
    /\ cache.calls < MaxCalls
    /\ cache' = [cache EXCEPT !.pc = "read", !.calls = @ + 1,
                              !.found = cache.entry]
    /\ UNCHANGED parse_vars
    /\ UNCHANGED <<wrap, fix, workflow, frames, dims, poll>>

\* lines 99-130, called at line 154: the stored value when it is truthy,
\* None otherwise
get_cached_timestamp_data ==
    /\ cache.pc = "read"
    /\ cache' = [cache EXCEPT !.pc = "validate",
                              !.cached_data = IF TruthyResponse(cache.entry)
                                              THEN cache.entry
                                              ELSE NoResponse]
    /\ UNCHANGED parse_vars
    /\ UNCHANGED <<wrap, fix, workflow, frames, dims, poll>>

\* lines 155-167: a cached response with aligned words is returned; for a
\* truthy data that is not a dict, .get('alignedWords') raises AttributeError
ValidateCached ==
    /\ cache.pc = "validate"
    /\ cache' = [cache EXCEPT !.pc =
                     IF ~TruthyResponse(cache.cached_data) THEN "fetch"
                     ELSE IF ~TruthyData(cache.cached_data) THEN "fetch"
                     ELSE IF cache.cached_data.data # "dict" THEN "raise"
                     ELSE IF TruthyAlignedWords(cache.cached_data) THEN "return cached"
                     ELSE "fetch"]
    /\ UNCHANGED parse_vars
    /\ UNCHANGED <<wrap, fix, workflow, frames, dims, poll>>

\* lines 171-172 and 12-53: one request; the answer, or None when it failed
get_timestamped_lyrics ==
    /\ cache.pc = "fetch"
    /\ \E answer \in ApiResponses :
           cache' = [cache EXCEPT !.pc = "save", !.fresh_data = answer,
                                  !.requests = @ + 1]
    /\ UNCHANGED parse_vars
    /\ UNCHANGED <<wrap, fix, workflow, frames, dims, poll>>

\* lines 174-176 and 57-96: a truthy answer replaces the stored value
save_timestamp_data_to_json ==
    /\ cache.pc = "save"
    /\ cache' = [cache EXCEPT !.pc = "return fresh",
                              !.entry = IF TruthyResponse(cache.fresh_data)
                                        THEN cache.fresh_data
                                        ELSE @]
    /\ UNCHANGED parse_vars
    /\ UNCHANGED <<wrap, fix, workflow, frames, dims, poll>>

\* how a call ends: line 160 (return cached_data), line 178 (return
\* fresh_data), or the AttributeError of line 158 leaving the function
EndCall(outcome, value) ==
    cache' = CacheIdle(cache.entry, cache.calls,
                       Append(cache.log, [found |-> cache.found,
                                          requests |-> cache.requests,
                                          outcome |-> outcome,
                                          value |-> value,
                                          left |-> cache.entry]))

ReturnCached ==
    /\ cache.pc = "return cached"
    /\ EndCall("returned", cache.cached_data)
    /\ UNCHANGED parse_vars
    /\ UNCHANGED <<wrap, fix, workflow, frames, dims, poll>>

ReturnFresh ==
    /\ cache.pc = "return fresh"
    /\ EndCall("returned", cache.fresh_data)
    /\ UNCHANGED parse_vars
    /\ UNCHANGED <<wrap, fix, workflow, frames, dims, poll>>

RaiseAttributeError ==
    /\ cache.pc = "raise"
    /\ EndCall("raised", NoResponse)
    /\ UNCHANGED parse_vars
    /\ UNCHANGED <<wrap, fix, workflow, frames, dims, poll>>

NextCache ==
    \/ CallWithCache
    \/ get_cached_timestamp_data
    \/ ValidateCached
    \/ get_timestamped_lyrics
    \/ save_timestamp_data_to_json
    \/ ReturnCached
    \/ ReturnFresh
    \/ RaiseAttributeError

SpecCache == InitCache /\ [][NextCache]_vars

\* the stored response has a non-empty data.alignedWords
HasAlignedWords(r) ==
    r.kind = "dict" /\ r.data = "dict" /\ r.aligned = "list" /\ r.alignedWords # <<>>

(***************************************************************************)
(* C25. Cache protocol, as stated: a call returns the cached response      *)
(* without a request exactly when the stored entry has non-empty           *)
(* data.alignedWords; every other call sends exactly one request, stores   *)
(* the answer when it is non-empty and returns it; once an entry with      *)
(* aligned words is stored no later call sends a request.  A stored        *)
(* response whose data is a non-empty string makes line 158 raise          *)
(* AttributeError: the call neither returns nor sends a request, so the    *)
(* statement is violated.                                                  *)
(***************************************************************************)
C25_CacheProtocol ==
    /\ \A c \in 1..Len(cache.log) :
           LET call == cache.log[c]
           IN  IF HasAlignedWords(call.found)
               THEN /\ call.outcome = "returned"
                    /\ call.requests = 0
                    /\ call.value = call.found
                    /\ call.left = call.found
               ELSE /\ call.outcome = "returned"
                    /\ call.requests = 1
                    /\ call.left = IF TruthyResponse(call.value) THEN call.value
                                   ELSE call.found
    /\ \A c, d \in 1..Len(cache.log) :
           (c < d /\ HasAlignedWords(cache.log[c].left)) =>
               cache.log[d].requests = 0

(***************************************************************************)
(* create_music_with_gradio and wait_until_completion                      *)
(* (gradio_interface.py lines 19-161, music_generation.py lines 163-185).  *)
(* `poll` holds one invocation of create_music_with_gradio: the truthiness *)
(* of its four arguments, what genMusic answered, the generation task on   *)
(* the server (its final status and the number of queries it still answers *)
(* PENDING), the local `data` of wait_until_completion, the number of      *)
(* status queries sent and the returned message.                           *)
(***************************************************************************)

\* status queries counted up to this number; the counter saturates there,
\* the loop of lines 174-184 itself has no bound
MaxPolls == 3

\* queries a task may answer PENDING before it reaches its final status
MaxPending == 2

\* the only status the code tests for (line 180), and one other final status
FinalStatuses == {"SUCCESS", "FAILED"}

\* genMusic (lines 28-61): the request or the JSON decoding raises, or the
\* decoded body is null, an empty object, an error object (code # 200), a
\* code-200 object without a task, or a code-200 object with data.taskId
GenResults == {"raises", "null", "empty", "rejected", "no task", "started"}

\* what follows a completed generation (lines 75-156)
Completions == {"No audio data received", "Error occurred during music generation",
                "Music generated but failed to save metadata",
                "completed successfully"}

PollCalled(token, name, paroles, style, final, pending) ==
    [pc |-> "called", token |-> token, name |-> name, paroles |-> paroles,
     style |-> style, result |-> "none",
     task |-> [final |-> final, pending |-> pending],
     data |-> "None", polls |-> 0, message |-> "none"]

InitPoll ==
    /\ NoCall
    /\ wrap = Unused
    /\ fix = Unused
    /\ workflow = Unused
    /\ frames = Unused
    /\ dims = Unused
    /\ cache = Unused
    /\ poll \in { PollCalled(t, n, p, s, f, k) :
                    t \in BOOLEAN, n \in BOOLEAN, p \in BOOLEAN, s \in BOOLEAN,
                    f \in FinalStatuses, k \in 0..MaxPending }

\* a return statement of create_music_with_gradio
ReturnMessage(message) ==
    poll' = [poll EXCEPT !.pc = "returned", !.message = message]

\* lines 39-46: the four argument checks, in order
ValidateInputs ==
    /\ poll.pc = "called"
    /\ IF ~poll.token THEN ReturnMessage("Please provide an API token")
       ELSE IF ~poll.name THEN ReturnMessage("Please provide a music name")
       ELSE IF ~poll.paroles THEN ReturnMessage("Please provide lyrics (paroles)")
       ELSE IF ~poll.style THEN ReturnMessage("Please provide a music style")
       ELSE poll' = [poll EXCEPT !.pc = "validated"]
    /\ UNCHANGED parse_vars
    /\ UNCHANGED <<wrap, fix, workflow, frames, dims, cache>>

\* lines 51-58: the generation request and the test of its answer; an
\* exception (raised by genMusic, by None.get at line 55 or by the subscript
\* of line 58) reaches the handler of lines 158-161
genMusic ==
    /\ poll.pc = "validated"
    /\ \E answer \in GenResults :
           CASE answer \in {"raises", "null", "no task"} ->
                    poll' = [poll EXCEPT !.pc = "returned", !.result = answer,
                               !.message = "Error occurred during music generation"]
             [] answer \in {"empty", "rejected"} ->
                    poll' = [poll EXCEPT !.pc = "returned", !.result = answer,
                               !.message = "Failed to start music generation"]
             [] OTHER ->
                    poll' = [poll EXCEPT !.pc = "polling", !.result = answer,
                                         !.data = "None"]
    /\ UNCHANGED parse_vars
    /\ UNCHANGED <<wrap, fix, workflow, frames, dims, cache>>

\* the answers the status endpoint can give to one query: the request or
\* the reading of its body raises, or the body carries the task's status
Answers(task) ==
    {"raises"} \cup (IF task.pending > 0 THEN {"PENDING"} ELSE {task.final})

\* lines 175-182 of music_generation.py: one pass of the loop body; the
\* loop is left only at line 181, on the status SUCCESS
getMusicGenStatus ==
    /\ poll.pc = "polling"
    /\ \E answer \in Answers(poll.task) :
           poll' = [poll EXCEPT
                      !.polls = Min(@ + 1, MaxPolls),
                      !.task.pending = IF answer = "PENDING" THEN @ - 1 ELSE @,
                      !.data = IF answer = "raises" THEN "None" ELSE answer,
                      !.pc = IF answer = "SUCCESS" THEN "completed" ELSE "sleeping"]
    /\ UNCHANGED parse_vars
    /\ UNCHANGED <<wrap, fix, workflow, frames, dims, cache>>

\* line 184: time.sleep(5), then the next pass of `while True`
Sleep ==
    /\ poll.pc = "sleeping"
    /\ poll' = [poll EXCEPT !.pc = "polling"]
    /\ UNCHANGED parse_vars
    /\ UNCHANGED <<wrap, fix, workflow, frames, dims, cache>>

\* line 185 and lines 63-156 of gradio_interface.py: wait_until_completion
\* returns `data` and create_music_with_gradio reports on it
ReportCompletion ==
    /\ poll.pc = "completed"
    /\ IF poll.data = "None"
       THEN ReturnMessage("Error occurred during music generation")
       ELSE IF poll.data # "SUCCESS"
       THEN ReturnMessage("Music generation failed or timed out")
       ELSE \E message \in Completions : ReturnMessage(message)
    /\ UNCHANGED parse_vars
    /\ UNCHANGED <<wrap, fix, workflow, frames, dims, cache>>

NextPoll ==
    \/ ValidateInputs
    \/ genMusic
    \/ getMusicGenStatus
    \/ Sleep
    \/ ReportCompletion

\* the calling thread keeps running: a request returns or raises and a
\* sleep ends, so a step that can be taken is taken
SpecPoll == InitPoll /\ [][NextPoll]_vars /\ WF_vars(NextPoll)

(***************************************************************************)
(* C26. Generation failure is reported: every invocation of                *)
(* create_music_with_gradio eventually returns, whatever the status        *)
(* endpoint answers.  The loop of wait_until_completion is left only on    *)
(* the status SUCCESS, so a task whose final status is another one, or     *)
(* whose status queries keep raising, is queried for ever.                 *)
(***************************************************************************)
C26_EventuallyReturns == <>(poll.pc = "returned")

====
